---- MODULE Spec2Model ----
(***************************************************************************)
(* The intent-routing and security-gating control flow of the multi-agent  *)
(* assistant: ControllerAgent.handle_query with its collaborators          *)
(* ChatAgent (context, history) and SecurityAgent (threat scanner).        *)
(***************************************************************************)
EXTENDS Integers, Sequences, FiniteSets, TLC

(***************************************************************************)
(* Text.  A Python str is a sequence of one-character strings, so that     *)
(* upper(), lower(), strip() and the substring test `in` are computed.     *)
(***************************************************************************)
LowerLetters ==
    <<"a","b","c","d","e","f","g","h","i","j","k","l","m","n","o","p","q","r","s","t","u","v","w","x","y","z">>

UpperLetters ==
    <<"A","B","C","D","E","F","G","H","I","J","K","L","M","N","O","P","Q","R","S","T","U","V","W","X","Y","Z">>

WhiteSpace == {" ", "\n", "\t"}

LetterIndex(letters, c) == CHOOSE i \in 1..Len(letters) : letters[i] = c

IsLower(c) == \E i \in 1..Len(LowerLetters) : LowerLetters[i] = c

IsUpper(c) == \E i \in 1..Len(UpperLetters) : UpperLetters[i] = c

ToUpperChar(c) == IF IsLower(c) THEN UpperLetters[LetterIndex(LowerLetters, c)] ELSE c

ToLowerChar(c) == IF IsUpper(c) THEN LowerLetters[LetterIndex(UpperLetters, c)] ELSE c

\* str.upper()
upper(s) == [i \in 1..Len(s) |-> ToUpperChar(s[i])]

\* str.lower()
lower(s) == [i \in 1..Len(s) |-> ToLowerChar(s[i])]

\* str.title() on words separated by non-letters
title(s) ==
    [i \in 1..Len(s) |->
        IF i = 1 \/ ~(IsLower(s[i - 1]) \/ IsUpper(s[i - 1]))
        THEN ToUpperChar(s[i]) ELSE ToLowerChar(s[i])]

\* str.strip(): leading and trailing whitespace removed
strip(s) ==
    LET keep == {i \in 1..Len(s) : s[i] \notin WhiteSpace}
    IN  IF keep = {} THEN <<>>
        ELSE LET lo == CHOOSE i \in keep : \A j \in keep : i <= j
                 hi == CHOOSE i \in keep : \A j \in keep : i >= j
             IN  SubSeq(s, lo, hi)

\* Python's `sub in s`
Contains(s, sub) ==
    \E i \in 0..(Len(s) - Len(sub)) : \A j \in 1..Len(sub) : s[i + j] = sub[j]

\* "".join(parts)
RECURSIVE Join(_)
Join(parts) == IF parts = <<>> THEN <<>> ELSE Head(parts) \o Join(Tail(parts))

Min(S) == CHOOSE x \in S : \A y \in S : x <= y


(***************************************************************************)
(* Python values.  A str held by the program is a sequence of chunks, each *)
(* chunk a piece of literal text; None is NoneText and "" is <<>>.  A JSON *)
(* scalar of the remote payload is a string, with reserved spellings for   *)
(* a missing key, null and a number.                                       *)
(***************************************************************************)
NoneText == <<"<None>">>

\* a test that takes the empty string for a text
IsNotNone(t) == t /= NoneText

\* bool(t) for a str or None
IsTruthyText(t) == t /= <<>> /\ t /= NoneText

Absent == "<absent>"

Null == "<null>"

Int7 == "<int:7>"

Int0 == "<int:0>"

PyTrue == "<True>"

PyFalse == "<False>"

\* bool(v)
Truthy(v) == v \notin {Absent, Null, Int0, PyFalse, ""}

\* isinstance(v, str)
IsStr(v) == v \notin {Absent, Null, Int0, Int7, PyTrue, PyFalse}

\* str.lower() on the payload's words
LowerWord(v) ==
    CASE v \in {"BLOCK", "Block"} -> "block"
      [] v \in {"ALLOW", "Allow"} -> "allow"
      [] v \in {"BENIGN", "Benign"} -> "benign"
      [] v = "THREAT" -> "threat"
      [] v = "Jailbreak" -> "jailbreak"
      [] v = "PROMPT_INJECTION" -> "prompt_injection"
      [] OTHER -> v

\* dict.get(key, default)
GetOr(v, default) == IF v = Absent THEN default ELSE v

\* dict.get(key)
Get(v) == GetOr(v, Null)

Bool(b) == IF b THEN PyTrue ELSE PyFalse

(***************************************************************************)
(* SecurityAgent                                                           *)
(***************************************************************************)
\* AIRSResponse(...) built by the failure paths of scan_interaction
AIRSResponse(is_safe, threat_detected, action_taken, details) ==
    [is_safe |-> is_safe, threat_detected |-> threat_detected, threat_type |-> Null,
     risk_score |-> Null, action_taken |-> action_taken, scan_time_ms |-> -1,
     details |-> details]

\* a scanner that is enabled without a credential
SecurityAgentInitAlwaysEnabled(api_key, enable_prompt_scan, enable_response_scan, block_on_threat) ==
    [api_key |-> api_key,
     enable_prompt_scan |-> enable_prompt_scan,
     enable_response_scan |-> enable_response_scan,
     block_on_threat |-> block_on_threat,
     enabled |-> TRUE,
     activation_status |-> "pending",
     last_error |-> Null,
     stats |-> [total_scans |-> 0, threats_detected |-> 0, prompts_scanned |-> 0,
                responses_scanned |-> 0, blocked_requests |-> 0],
     requests |-> 0]

\* SecurityAgent.__init__
SecurityAgentInit(api_key, enable_prompt_scan, enable_response_scan, block_on_threat) ==
    [api_key |-> api_key,
     enable_prompt_scan |-> enable_prompt_scan,
     enable_response_scan |-> enable_response_scan,
     block_on_threat |-> block_on_threat,
     enabled |-> api_key /= "",
     activation_status |-> IF api_key = "" THEN "disabled" ELSE "pending",
     last_error |-> Null,
     stats |-> [total_scans |-> 0, threats_detected |-> 0, prompts_scanned |-> 0,
                responses_scanned |-> 0, blocked_requests |-> 0],
     requests |-> 0]

\* The decoded body of a remote answer:
\*   [shape, status, threats, risk_score, action, details]
\* shape "dict" is a JSON object, anything else another JSON value; threats is
\* [kind, items] with kind in absent / null / list / other (a number) and each item
\* [dict, type]; details is [kind, category, action, prompt_detected,
\* response_detected] with kind in absent / null / dict / other; a detection map is
\* [kind, items], each item [key, val].
NoMap == [kind |-> "absent", items |-> <<>>]

NoDetails ==
    [kind |-> "absent", category |-> Absent, action |-> Absent,
     prompt_detected |-> NoMap, response_detected |-> NoMap]

NoThreats == [kind |-> "absent", items |-> <<>>]

\* details.get(name, {}) or {}: the items of the map, none when missing or null
MapItems(m) == IF m.kind = "dict" THEN m.items ELSE <<>>

\* {**prompt_detected, **response_detected}.items()
MergedItems(p, r) ==
    LET over(i) == IF \E j \in 1..Len(r) : r[j].key = p[i].key
                   THEN [key |-> p[i].key,
                         val |-> r[CHOOSE j \in 1..Len(r) :
                                     r[j].key = p[i].key /\ \A k \in (j+1)..Len(r) : r[k].key /= p[i].key].val]
                   ELSE p[i]
        fresh == SelectSeq(r, LAMBDA e : \A i \in 1..Len(p) : p[i].key /= e.key)
    IN  [i \in 1..Len(p) |-> over(i)] \o fresh

\* next((k for k, v in items if v), None)
FirstTruthyKey(items) ==
    LET hits == {i \in 1..Len(items) : items[i].val}
    IN  IF hits = {} THEN Null ELSE items[Min(hits)].key

\* a parser whose except branch reports ERROR
ParseErrorResponseAsError == AIRSResponse(TRUE, PyFalse, "ERROR", "error_and_raw_response")

\* the except branch of _parse_airs_response
ParseErrorResponse == AIRSResponse(TRUE, PyFalse, "PARSE_ERROR", "error_and_raw_response")

\* a scanner that blocks every threat, whatever the policy
action_taken_ignoring_policy(threat_detected, block_on_threat) ==
    IF Truthy(threat_detected) THEN "BLOCKED" ELSE "ALLOW"

\* a scanner that blocks whenever the policy is to block, threat or no threat
action_taken_policy_first(threat_detected, block_on_threat) ==
    IF block_on_threat THEN "BLOCKED"
    ELSE IF Truthy(threat_detected) THEN "LOGGED"
    ELSE "ALLOW"

\* if threat_detected and self.block_on_threat: BLOCKED / elif threat_detected: LOGGED / else ALLOW
action_taken_of(threat_detected, block_on_threat) ==
    IF Truthy(threat_detected) /\ block_on_threat THEN "BLOCKED"
    ELSE IF Truthy(threat_detected) THEN "LOGGED"
    ELSE "ALLOW"

\* SecurityAgent._parse_airs_response; an exception inside the try gives ParseErrorResponse
parse_airs_response(airs_response, block_on_threat) ==
    IF airs_response.shape /= "dict" THEN ParseErrorResponse
    ELSE
    LET status == GetOr(airs_response.status, "unknown")
        threats == airs_response.threats
        risk_score == GetOr(airs_response.risk_score, Int0)
        action0 == GetOr(airs_response.action, "allow")
        details == airs_response.details
    IN  IF details.kind \in {"null", "other"} THEN ParseErrorResponse
        ELSE
        LET category == Get(details.category)
            details_action == Get(details.action)
            pd == details.prompt_detected
            rd == details.response_detected
        IN  IF pd.kind = "other" \/ rd.kind = "other" THEN ParseErrorResponse
            ELSE
            LET prompt_detected == MapItems(pd)
                response_detected == MapItems(rd)
                detected_flags == prompt_detected \o response_detected
                detected_any == \E i \in 1..Len(detected_flags) : detected_flags[i].val
                action == IF Truthy(details_action) THEN details_action ELSE action0
                \* the or-chain, left to right; "raise" when an operand raises
                has_threats == threats.kind = "list" /\ Len(threats.items) > 0
                threat_detected ==
                    IF threats.kind \in {"null", "other"} THEN "raise"
                    ELSE IF has_threats \/ status = "threat" \/ detected_any THEN PyTrue
                    ELSE IF Truthy(category) /\ ~IsStr(category) THEN "raise"
                    ELSE IF Truthy(category) /\ LowerWord(category) /= "benign" THEN PyTrue
                    ELSE IF ~Truthy(action) THEN action
                    ELSE IF ~IsStr(action) THEN "raise"
                    ELSE Bool(LowerWord(action) = "block")
            IN  IF threat_detected = "raise" THEN ParseErrorResponse
                ELSE IF Truthy(threat_detected) /\ ~IsStr(action) THEN ParseErrorResponse
                ELSE IF has_threats /\ ~threats.items[1].dict THEN ParseErrorResponse
                ELSE
                LET is_safe == ~Truthy(threat_detected) \/ LowerWord(action) = "allow"
                    threat_type ==
                        IF has_threats THEN Get(threats.items[1].type)
                        ELSE IF Truthy(category) THEN category
                        ELSE FirstTruthyKey(MergedItems(prompt_detected, response_detected))
                IN  [is_safe |-> is_safe,
                     threat_detected |-> threat_detected,
                     threat_type |-> threat_type,
                     risk_score |-> risk_score,
                     action_taken |-> action_taken_of(threat_detected, block_on_threat),
                     scan_time_ms |-> -1,
                     details |-> "airs_response"]

\* statistics whose threat counter starts again at every scan that finds nothing
update_stats_restarting(stats, scan_result, scanned_prompt, scanned_response) ==
    [total_scans |-> stats.total_scans + 1,
     prompts_scanned |-> stats.prompts_scanned + (IF scanned_prompt THEN 1 ELSE 0),
     responses_scanned |-> stats.responses_scanned + (IF scanned_response THEN 1 ELSE 0),
     threats_detected |-> IF Truthy(scan_result.threat_detected) THEN stats.threats_detected + 1 ELSE 0,
     blocked_requests |-> stats.blocked_requests + (IF scan_result.action_taken = "BLOCKED" THEN 1 ELSE 0)]

\* statistics that count a blocked request for every threat, blocked or logged
update_stats_threats_as_blocked(stats, scan_result, scanned_prompt, scanned_response) ==
    [total_scans |-> stats.total_scans + 1,
     prompts_scanned |-> stats.prompts_scanned + (IF scanned_prompt THEN 1 ELSE 0),
     responses_scanned |-> stats.responses_scanned + (IF scanned_response THEN 1 ELSE 0),
     threats_detected |-> stats.threats_detected + (IF Truthy(scan_result.threat_detected) THEN 1 ELSE 0),
     blocked_requests |-> stats.blocked_requests + (IF Truthy(scan_result.threat_detected) THEN 1 ELSE 0)]

\* statistics that count a blocked threat as blocked only
update_stats_blocked_apart(stats, scan_result, scanned_prompt, scanned_response) ==
    [total_scans |-> stats.total_scans + 1,
     prompts_scanned |-> stats.prompts_scanned + (IF scanned_prompt THEN 1 ELSE 0),
     responses_scanned |-> stats.responses_scanned + (IF scanned_response THEN 1 ELSE 0),
     threats_detected |-> stats.threats_detected + (IF scan_result.action_taken = "LOGGED" THEN 1 ELSE 0),
     blocked_requests |-> stats.blocked_requests + (IF scan_result.action_taken = "BLOCKED" THEN 1 ELSE 0)]

\* statistics that count as blocked only the scans of a prompt alone
update_stats_blocked_prompts_only(stats, scan_result, scanned_prompt, scanned_response) ==
    [total_scans |-> stats.total_scans + 1,
     prompts_scanned |-> stats.prompts_scanned + (IF scanned_prompt THEN 1 ELSE 0),
     responses_scanned |-> stats.responses_scanned + (IF scanned_response THEN 1 ELSE 0),
     threats_detected |-> stats.threats_detected + (IF Truthy(scan_result.threat_detected) THEN 1 ELSE 0),
     blocked_requests |-> stats.blocked_requests
                            + (IF scan_result.action_taken = "BLOCKED" /\ ~scanned_response THEN 1 ELSE 0)]

\* SecurityAgent._update_stats
update_stats(stats, scan_result, scanned_prompt, scanned_response) ==
    [total_scans |-> stats.total_scans + 1,
     prompts_scanned |-> stats.prompts_scanned + (IF scanned_prompt THEN 1 ELSE 0),
     responses_scanned |-> stats.responses_scanned + (IF scanned_response THEN 1 ELSE 0),
     threats_detected |-> stats.threats_detected + (IF Truthy(scan_result.threat_detected) THEN 1 ELSE 0),
     blocked_requests |-> stats.blocked_requests + (IF scan_result.action_taken = "BLOCKED" THEN 1 ELSE 0)]

\* a scanner that calls itself active after every successful scan
activation_always_active(activation_status) == "active"

\* if self.activation_status == "pending": self.activation_status = "active"
activation_after_success(activation_status) ==
    IF activation_status = "pending" THEN "active" ELSE activation_status

\* tr_id = f"{int(time.time() * 1000)}_{agent_name}" in _build_airs_request
tr_id_of(ms, agent_name) == <<ms, "_", agent_name>>

\* a timeout branch that fails closed
TimeoutResponseFailClosed == AIRSResponse(FALSE, PyTrue, "TIMEOUT", "error")

\* except requests.exceptions.Timeout: the result returned
TimeoutResponse == AIRSResponse(TRUE, PyFalse, "TIMEOUT", "error")

\* except requests.exceptions.HTTPError: the result returned
HTTPErrorResponse == AIRSResponse(TRUE, PyFalse, "ERROR", "error_and_status_code")

\* except Exception: the result returned
ErrorResponse == AIRSResponse(TRUE, PyFalse, "ERROR", "error")

\* the status and last error an HTTP error leaves
HTTPErrorStatus(code) ==
    CASE code = 403 -> [activation_status |-> "pending_activation",
                        last_error |-> "API key pending activation. Contact Palo Alto support."]
      [] code = 401 -> [activation_status |-> "auth_failed",
                        last_error |-> "Authentication failed. Check API key."]
      [] OTHER      -> [activation_status |-> "error", last_error |-> "HTTP <status_code>: <e>"]

\* a scanner that sends its request a second time when the first one times out
scan_interaction_retrying(sa, prompt, response, remote) ==
    IF ~sa.enabled
    THEN [res |-> AIRSResponse(TRUE, PyFalse, "SKIP_DISABLED", Null), sa |-> sa]
    ELSE
    LET scan_prompt == sa.enable_prompt_scan /\ IsTruthyText(prompt)
        scan_response == sa.enable_response_scan /\ IsTruthyText(response)
        sent == [sa EXCEPT !.requests = @ + 1]
    IN  IF ~scan_prompt /\ ~scan_response
        THEN [res |-> AIRSResponse(TRUE, PyFalse, "SKIP_CONFIG", Null), sa |-> sa]
        ELSE CASE remote.kind = "json" ->
                    LET scan_result == [parse_airs_response(remote.body, sa.block_on_threat)
                                            EXCEPT !.scan_time_ms = remote.elapsed]
                    IN  [res |-> scan_result,
                         sa |-> [sent EXCEPT
                                   !.stats = update_stats(@, scan_result, scan_prompt, scan_response),
                                   !.activation_status = activation_after_success(@),
                                   !.last_error = IF sa.activation_status = "pending" THEN Null ELSE @]]
               [] remote.kind = "http" ->
                    [res |-> HTTPErrorResponse,
                     sa |-> [sent EXCEPT
                               !.activation_status = HTTPErrorStatus(remote.code).activation_status,
                               !.last_error = HTTPErrorStatus(remote.code).last_error]]
               [] remote.kind = "timeout" ->
                    [res |-> TimeoutResponse,
                     sa |-> [sent EXCEPT !.requests = @ + 1,
                                         !.activation_status = "timeout",
                                         !.last_error = "API timeout after <timeout>s"]]
               [] OTHER ->
                    [res |-> ErrorResponse,
                     sa |-> [sent EXCEPT !.activation_status = "error",
                                         !.last_error = "<str(e)>"]]

\* What the remote service does with one request:
\*   [kind, code, body, elapsed]
\* kind "json": a 2xx answer whose body decodes to `body` after `elapsed` ms;
\* "bad_json": a 2xx answer whose body is not JSON (response.json() raises);
\* "http": a non-2xx status `code` (raise_for_status raises HTTPError);
\* "timeout": requests.exceptions.Timeout; "connection": another transport error.
\*
\* SecurityAgent.scan_interaction: the result returned and the agent afterwards
scan_interaction(sa, prompt, response, remote) ==
    IF ~sa.enabled
    THEN [res |-> AIRSResponse(TRUE, PyFalse, "SKIP_DISABLED", Null), sa |-> sa]
    ELSE
    LET scan_prompt == sa.enable_prompt_scan /\ IsTruthyText(prompt)
        scan_response == sa.enable_response_scan /\ IsTruthyText(response)
        sent == [sa EXCEPT !.requests = @ + 1]
    IN  IF ~scan_prompt /\ ~scan_response
        THEN [res |-> AIRSResponse(TRUE, PyFalse, "SKIP_CONFIG", Null), sa |-> sa]
        ELSE CASE remote.kind = "json" ->
                    LET scan_result == [parse_airs_response(remote.body, sa.block_on_threat)
                                            EXCEPT !.scan_time_ms = remote.elapsed]
                    IN  [res |-> scan_result,
                         sa |-> [sent EXCEPT
                                   !.stats = update_stats(@, scan_result, scan_prompt, scan_response),
                                   !.activation_status = activation_after_success(@),
                                   !.last_error = IF sa.activation_status = "pending" THEN Null ELSE @]]
               [] remote.kind = "http" ->
                    [res |-> HTTPErrorResponse,
                     sa |-> [sent EXCEPT
                               !.activation_status = HTTPErrorStatus(remote.code).activation_status,
                               !.last_error = HTTPErrorStatus(remote.code).last_error]]
               [] remote.kind = "timeout" ->
                    [res |-> TimeoutResponse,
                     sa |-> [sent EXCEPT !.activation_status = "timeout",
                                         !.last_error = "API timeout after <timeout>s"]]
               [] OTHER ->
                    [res |-> ErrorResponse,
                     sa |-> [sent EXCEPT !.activation_status = "error",
                                         !.last_error = "<str(e)>"]]

\* SecurityAgent.get_safe_response; "raise" when threat_type.lower() raises
base_message == "I'm sorry, but I cannot process this request as it may violate our security policies. "

type_messages(threat_type) ==
    CASE threat_type = "prompt_injection" -> "The input appears to contain prompt injection attempts."
      [] threat_type = "data_exfiltration" -> "The request may attempt to extract sensitive data."
      [] threat_type = "malicious_content" -> "The content has been flagged as potentially malicious."
      [] threat_type = "jailbreak" -> "The request appears to bypass safety guidelines."
      [] threat_type = "pii_exposure" -> "The interaction may expose personally identifiable information."
      [] OTHER -> "The request has been flagged for security review."

\* [ok, text]: ok is FALSE when the call raises (threat_type is truthy and not a str)
get_safe_response(threat_type) ==
    IF Truthy(threat_type)
    THEN IF IsStr(threat_type)
         THEN [ok |-> TRUE, text |-> <<base_message, type_messages(LowerWord(threat_type))>>]
         ELSE [ok |-> FALSE, text |-> <<"'int' object has no attribute 'lower'">>]
    ELSE [ok |-> TRUE,
          text |-> <<base_message, "Please rephrase your request or contact support if you believe this is an error.">>]

(***************************************************************************)
(* ChatAgent                                                               *)
(***************************************************************************)
Digits == {"0", "1", "2", "3", "4", "5", "6", "7", "8", "9"}

\* \w
IsWordChar(c) == IsLower(c) \/ IsUpper(c) \/ c \in Digits \/ c = "_"

\* the literal `lit` stands in s at position i
LitAt(s, i, lit) ==
    /\ i >= 1
    /\ i + Len(lit) - 1 <= Len(s)
    /\ \A j \in 1..Len(lit) : s[i + j - 1] = lit[j]

\* (?:in|at|for|near|of)
Prepositions ==
    {<<"i","n">>, <<"a","t">>, <<"f","o","r">>, <<"n","e","a","r">>, <<"o","f">>}

\* \s+ from position i: the position after the run, 0 when there is no whitespace at i
RECURSIVE SpaceRunEnd(_, _)
SpaceRunEnd(s, i) ==
    IF i <= Len(s) /\ s[i] \in WhiteSpace
    THEN LET rest == SpaceRunEnd(s, i + 1) IN IF rest = 0 THEN i + 1 ELSE rest
    ELSE 0

\* [a-z]+ greedy from position i: the last position matched, 0 when s[i] is no lower-case letter
RECURSIVE LowerRunEnd(_, _)
LowerRunEnd(s, i) ==
    IF i <= Len(s) /\ IsLower(s[i])
    THEN LET rest == LowerRunEnd(s, i + 1) IN IF rest = 0 THEN i ELSE rest
    ELSE 0

\* [A-Z][a-z]+ at position i: the last position matched, 0 when it does not match
CapWordEnd(s, i) ==
    IF i <= Len(s) /\ IsUpper(s[i]) THEN LowerRunEnd(s, i + 1) ELSE 0

\* (?:\s[A-Z][a-z]+)* greedy after position k: the last position matched
RECURSIVE CapPhraseEnd(_, _)
CapPhraseEnd(s, k) ==
    IF k + 1 <= Len(s) /\ s[k + 1] \in WhiteSpace /\ CapWordEnd(s, k + 2) > 0
    THEN CapPhraseEnd(s, CapWordEnd(s, k + 2))
    ELSE k

\* the location pattern matched with its preposition at position i: <<from, to>> of
\* group 1, <<0, 0>> when it does not match there
LocationAt(s, i) ==
    LET preps == {p \in Prepositions : LitAt(s, i, p)}
    IN  IF preps = {} THEN <<0, 0>>
        ELSE LET p == CHOOSE p \in preps : TRUE
                 from == SpaceRunEnd(s, i + Len(p))
             IN  IF from = 0 \/ CapWordEnd(s, from) = 0 THEN <<0, 0>>
                 ELSE <<from, CapPhraseEnd(s, CapWordEnd(s, from))>>

\* re.search(location pattern, query): group 1 of the leftmost match, <<>> when none
location_match(s) ==
    LET hits == {i \in 1..Len(s) : LocationAt(s, i)[1] > 0}
    IN  IF hits = {} THEN <<>>
        ELSE SubSeq(s, LocationAt(s, Min(hits))[1], LocationAt(s, Min(hits))[2])

\* \d{4}-\d{2}-\d{2} at position i
DateAt(s, i) ==
    /\ i + 9 <= Len(s)
    /\ \A j \in {0, 1, 2, 3, 5, 6, 8, 9} : s[i + j] \in Digits
    /\ s[i + 4] = "-"
    /\ s[i + 7] = "-"

\* re.search(r'(\d{4}-\d{2}-\d{2})', query): the leftmost match, <<>> when none
date_match(s) ==
    LET hits == {i \in 1..Len(s) : DateAt(s, i)}
    IN  IF hits = {} THEN <<>> ELSE SubSeq(s, Min(hits), Min(hits) + 9)

\* re.search(r'\bword\b', query, re.IGNORECASE)
HasWord(s, word) ==
    \E i \in 1..Len(s) :
        /\ LitAt(lower(s), i, word)
        /\ (i = 1 \/ ~IsWordChar(s[i - 1]))
        /\ (i + Len(word) > Len(s) \/ ~IsWordChar(s[i + Len(word)]))

(***************************************************************************)
(* The literal texts the model reads letter by letter.                     *)
(***************************************************************************)
\* the queries asked
Query ==
    [weather |-> "What's the weather in Paris tomorrow?",
     events |-> "show indoor events on 2026-03-01",
     image |-> "generate an image of a cat",
     news |-> "who won the league cup today",
     time |-> "what time is it in tokyo"]

\* pieces a completion text is made of
Piece ==
    [event |-> "EVENT_QUERY_DB",
     recommendation |-> "Recommendation",
     rag |-> "rag_query",
     image |-> "IMAGE_GENERATION",
     weather |-> "weather_query",
     time |-> "TIME_QUERY",
     unknown |-> "unknown",
     please |-> " please",
     banana |-> "BANANA",
     newline |-> "\n",
     broken_label |-> "TIME QUERY"]

\* answers of the retrieval agent and of the completion provider, and the note
\* _handle_rag_query appends for queries that mention 2026
Answers ==
    [no_docs |-> "The documents provided do not contain this information",
     dont_know |-> "I Don't Know.",
     answer |-> "The 2026 Grand Prix runs on the Marina Bay circuit.",
     note2026 |-> "\n\n_For current events, ask for recommendations!_",
     llm |-> " Hi! "]

\* the letters of each literal chunk
SpellTable ==
       Query.weather :> <<"W","h","a","t","'","s"," ","t","h","e"," ","w","e","a","t","h","e","r"," ","i","n"," ","P","a","r","i","s"," ","t","o","m","o","r","r","o","w","?">>
    @@ Query.events :> <<"s","h","o","w"," ","i","n","d","o","o","r"," ","e","v","e","n","t","s"," ","o","n"," ","2","0","2","6","-","0","3","-","0","1">>
    @@ Query.image :> <<"g","e","n","e","r","a","t","e"," ","a","n"," ","i","m","a","g","e"," ","o","f"," ","a"," ","c","a","t">>
    @@ Query.news :> <<"w","h","o"," ","w","o","n"," ","t","h","e"," ","l","e","a","g","u","e"," ","c","u","p"," ","t","o","d","a","y">>
    @@ Query.time :> <<"w","h","a","t"," ","t","i","m","e"," ","i","s"," ","i","t"," ","i","n"," ","t","o","k","y","o">>
    @@ Piece.event :> <<"E","V","E","N","T","_","Q","U","E","R","Y","_","D","B">>
    @@ Piece.recommendation :> <<"R","e","c","o","m","m","e","n","d","a","t","i","o","n">>
    @@ Piece.rag :> <<"r","a","g","_","q","u","e","r","y">>
    @@ Piece.image :> <<"I","M","A","G","E","_","G","E","N","E","R","A","T","I","O","N">>
    @@ Piece.weather :> <<"w","e","a","t","h","e","r","_","q","u","e","r","y">>
    @@ Piece.time :> <<"T","I","M","E","_","Q","U","E","R","Y">>
    @@ Piece.unknown :> <<"u","n","k","n","o","w","n">>
    @@ Piece.please :> <<" ","p","l","e","a","s","e">>
    @@ Piece.banana :> <<"B","A","N","A","N","A">>
    @@ Piece.newline :> <<"\n">>
    @@ Piece.broken_label :> <<"T","I","M","E"," ","Q","U","E","R","Y">>
    @@ Answers.no_docs :> <<"T","h","e"," ","d","o","c","u","m","e","n","t","s"," ","p","r","o","v","i","d","e","d"," ","d","o"," ","n","o","t"," ","c","o","n","t","a","i","n"," ","t","h","i","s"," ","i","n","f","o","r","m","a","t","i","o","n">>
    @@ Answers.dont_know :> <<"I"," ","D","o","n","'","t"," ","K","n","o","w",".">>
    @@ Answers.answer :> <<"T","h","e"," ","2","0","2","6"," ","G","r","a","n","d"," ","P","r","i","x"," ","r","u","n","s"," ","o","n"," ","t","h","e"," ","M","a","r","i","n","a"," ","B","a","y"," ","c","i","r","c","u","i","t",".">>
    @@ Answers.note2026 :> <<"\n","\n","_","F","o","r"," ","c","u","r","r","e","n","t"," ","e","v","e","n","t","s",","," ","a","s","k"," ","f","o","r"," ","r","e","c","o","m","m","e","n","d","a","t","i","o","n","s","!","_">>
    @@ Answers.llm :> <<" ","H","i","!"," ">>

\* the letters of a chunk: a chunk of one character is its own spelling
Spell(chunk) == IF chunk \in DOMAIN SpellTable THEN SpellTable[chunk] ELSE <<chunk>>

\* the characters of a text
Chars(text) == Join([i \in 1..Len(text) |-> Spell(text[i])])

(***************************************************************************)
(* Intent classifier: ControllerAgent._classify_intent                     *)
(***************************************************************************)
\* the spelling of each intent label
LabelText ==
       "RECOMMENDATION" :> <<"R","E","C","O","M","M","E","N","D","A","T","I","O","N">>
    @@ "EVENT_QUERY_DB" :> <<"E","V","E","N","T","_","Q","U","E","R","Y","_","D","B">>
    @@ "RAG_QUERY" :> <<"R","A","G","_","Q","U","E","R","Y">>
    @@ "IMAGE_GENERATION" :> <<"I","M","A","G","E","_","G","E","N","E","R","A","T","I","O","N">>
    @@ "WEATHER_QUERY" :> <<"W","E","A","T","H","E","R","_","Q","U","E","R","Y">>
    @@ "TIME_QUERY" :> <<"T","I","M","E","_","Q","U","E","R","Y">>
    @@ "UNKNOWN" :> <<"U","N","K","N","O","W","N">>

\* the order of the classification prompt's category list, not the order matched in
valid_intents_prompt_order ==
    <<"EVENT_QUERY_DB", "RECOMMENDATION", "TIME_QUERY", "WEATHER_QUERY",
      "IMAGE_GENERATION", "RAG_QUERY", "UNKNOWN">>

\* valid_intents, in the order the loop tries them
valid_intents ==
    <<"RECOMMENDATION", "EVENT_QUERY_DB", "RAG_QUERY",
      "IMAGE_GENERATION", "WEATHER_QUERY", "TIME_QUERY", "UNKNOWN">>

\* a classifier that hands back the completion's own words when no label matches
match_intent_unvalidated(intent) ==
    LET hits == {i \in 1..Len(valid_intents) : Contains(intent, LabelText[valid_intents[i]])}
    IN  IF hits = {} THEN "UNVALIDATED" ELSE valid_intents[Min(hits)]

\* for valid_intent in valid_intents: if valid_intent in intent: return valid_intent
match_intent(intent) ==
    LET hits == {i \in 1..Len(valid_intents) : Contains(intent, LabelText[valid_intents[i]])}
    IN  IF hits = {} THEN "UNKNOWN" ELSE valid_intents[Min(hits)]

\* A completion call ends in one of three ways: it raises ("raise"), it returns a
\* message whose content is None ("none": .strip() raises inside the try), or it
\* returns text ("text").
classify_intent(completion) ==
    IF completion.kind = "text"
    THEN match_intent(upper(strip(Chars(completion.content))))
    ELSE "UNKNOWN"


\* strftime("%Y-%m-%d") of the reference clock's days, counted from the first one
DayText ==
    <<<<"2","0","2","6","-","1","1","-","0","4">>,
      <<"2","0","2","6","-","1","1","-","0","5">>,
      <<"2","0","2","6","-","1","1","-","0","6">>,
      <<"2","0","2","6","-","1","1","-","0","7">>,
      <<"2","0","2","6","-","1","1","-","0","8">>,
      <<"2","0","2","6","-","1","1","-","0","9">>>>

\* self.last_active_location = "Singapore"
DefaultLocation == <<"S","i","n","g","a","p","o","r","e">>

\* signals of _is_rag_no_answer
RagNoAnswerSignals ==
    <<<<"d","o","c","u","m","e","n","t","s"," ","p","r","o","v","i","d","e","d"," ","d","o"," ","n","o","t"," ","c","o","n","t","a","i","n">>,
      <<"i"," ","d","o","n","'","t"," ","k","n","o","w">>,
      <<"i"," ","d","o"," ","n","o","t"," ","k","n","o","w">>,
      <<"n","o","t"," ","c","o","n","t","a","i","n"," ","i","n","f","o","r","m","a","t","i","o","n">>,
      <<"c","a","n","n","o","t"," ","f","i","n","d">>,
      <<"n","o"," ","i","n","f","o","r","m","a","t","i","o","n">>>>

\* signals of _looks_time_sensitive
TimeSensitiveSignals ==
    <<<<"l","a","s","t"," ","w","e","e","k">>,
      <<"t","o","d","a","y">>,
      <<"y","e","s","t","e","r","d","a","y">>,
      <<"t","h","i","s"," ","w","e","e","k">>,
      <<"r","e","c","e","n","t">>,
      <<"l","a","t","e","s","t">>,
      <<"w","h","o"," ","w","o","n">>,
      <<"r","e","s","u","l","t","s">>,
      <<"s","c","o","r","e">>,
      <<"c","h","a","m","p","i","o","n">>,
      <<"f","i","n","a","l">>>>

\* topics of _looks_time_sensitive
TimeSensitiveTopics ==
    <<<<"n","e","w","s">>,
      <<"s","p","o","r","t","s">>,
      <<"t","o","u","r","n","a","m","e","n","t">>,
      <<"o","p","e","n">>,
      <<"l","e","a","g","u","e">>,
      <<"c","u","p">>>>

\* the keys of timezone_map, in its order
TimezoneCities ==
    <<<<"l","o","n","d","o","n">>,
      <<"n","e","w"," ","y","o","r","k">>,
      <<"t","o","k","y","o">>,
      <<"s","i","n","g","a","p","o","r","e">>,
      <<"p","a","r","i","s">>,
      <<"s","y","d","n","e","y">>,
      <<"d","u","b","a","i">>,
      <<"h","o","n","g"," ","k","o","n","g">>,
      <<"l","o","s"," ","a","n","g","e","l","e","s">>,
      <<"c","h","i","c","a","g","o">>,
      <<"t","o","r","o","n","t","o">>,
      <<"m","u","m","b","a","i">>,
      <<"b","e","i","j","i","n","g">>,
      <<"b","e","r","l","i","n">>,
      <<"m","o","s","c","o","w">>>>

\* (generate|create|make|draw)
ImageVerbs ==
    <<<<"g","e","n","e","r","a","t","e">>,
      <<"c","r","e","a","t","e">>,
      <<"m","a","k","e">>,
      <<"d","r","a","w">>>>

\* (image|picture|photo)
ImageNouns ==
    <<<<"i","m","a","g","e">>,
      <<"p","i","c","t","u","r","e">>,
      <<"p","h","o","t","o">>>>

\* the words the code looks for in a query
Words ==
    [today |-> <<"t","o","d","a","y">>,
     tomorrow |-> <<"t","o","m","o","r","r","o","w">>,
     tonight |-> <<"t","o","n","i","g","h","t">>,
     yesterday |-> <<"y","e","s","t","e","r","d","a","y">>,
     time |-> <<"t","i","m","e">>,
     date |-> <<"d","a","t","e">>,
     day |-> <<"d","a","y">>,
     indoor |-> <<"i","n","d","o","o","r">>,
     outdoor |-> <<"o","u","t","d","o","o","r">>,
     y2026 |-> <<"2","0","2","6">>]

\* ChatAgent.__init__
ChatAgentInit(max_history) ==
    [conversation_history |-> <<>>,
     max_history |-> max_history,
     last_active_date |-> <<>>,
     last_active_location |-> DefaultLocation]

\* a reading of the date that looks for the keywords before the token
explicit_date_keywords_first(s, today) ==
    IF HasWord(s, Words.today) THEN DayText[today + 1]
    ELSE IF HasWord(s, Words.tomorrow) THEN DayText[today + 2]
    ELSE IF HasWord(s, Words.tonight) THEN DayText[today + 1]
    ELSE date_match(s)

\* the date the query names: the explicit token, else today / tomorrow / tonight
\* against the reference day `today`, else <<>> (date = None)
explicit_date(s, today) ==
    IF date_match(s) /= <<>> THEN date_match(s)
    ELSE IF HasWord(s, Words.today) THEN DayText[today + 1]
    ELSE IF HasWord(s, Words.tomorrow) THEN DayText[today + 2]
    ELSE IF HasWord(s, Words.tonight) THEN DayText[today + 1]
    ELSE <<>>

\* an extractor that prefers the reference day to the date it remembers
extract_entities_forgetting_date(ca, query, today) ==
    LET s == Chars(query)
        found == location_match(s)
        location == IF found /= <<>> THEN found ELSE ca.last_active_location
        named == explicit_date(s, today)
        date == IF named /= <<>> THEN named ELSE DayText[today + 1]
    IN  [ok |-> query /= NoneText, location |-> location, date |-> date,
         ca |-> [ca EXCEPT !.last_active_location = location,
                           !.last_active_date = date]]

\* ChatAgent.extract_entities: [ok, location, date, ca]; ok is FALSE when re.search
\* raises TypeError because the query is not a str
extract_entities(ca, query, today) ==
    IF query = NoneText
    THEN [ok |-> FALSE, location |-> <<>>, date |-> <<>>, ca |-> ca]
    ELSE
    LET s == Chars(query)
        found == location_match(s)
        location == IF found /= <<>> THEN found ELSE ca.last_active_location
        named == explicit_date(s, today)
        date == IF named /= <<>> THEN named
                ELSE IF ca.last_active_date /= <<>> THEN ca.last_active_date
                ELSE DayText[today + 1]
    IN  [ok |-> TRUE, location |-> location, date |-> date,
         ca |-> [ca EXCEPT !.last_active_location = location,
                           !.last_active_date = date]]

\* a history that drops the entry just inserted when it is full
add_to_history_evicting_newest(ca, query, response, timestamp) ==
    LET appended == Append(ca.conversation_history,
                           [query |-> query, response |-> response, timestamp |-> timestamp])
    IN  [ca EXCEPT !.conversation_history =
                        IF Len(appended) > ca.max_history
                        THEN SubSeq(appended, 1, ca.max_history)
                        ELSE appended]

\* a ChatAgent that forgets what it is told to remember
add_to_history_forgetting(ca, query, response, timestamp) == ca

\* ChatAgent.add_to_history
add_to_history(ca, query, response, timestamp) ==
    LET appended == Append(ca.conversation_history,
                           [query |-> query, response |-> response, timestamp |-> timestamp])
    IN  [ca EXCEPT !.conversation_history =
                        IF Len(appended) > ca.max_history THEN Tail(appended) ELSE appended]

\* a clear that empties the history and forgets the date but keeps the place
clear_history_keeping_place(ca) ==
    [ca EXCEPT !.conversation_history = <<>>,
               !.last_active_date = <<>>]

\* ChatAgent.clear_history
clear_history(ca) ==
    [ca EXCEPT !.conversation_history = <<>>,
               !.last_active_date = <<>>,
               !.last_active_location = DefaultLocation]

(***************************************************************************)
(* ControllerAgent: what the handlers read in the query and the answers    *)
(***************************************************************************)
\* any(s in lowered for s in signals)
AnyContained(lowered, signals) == \E i \in 1..Len(signals) : Contains(lowered, signals[i])

\* ControllerAgent._is_rag_no_answer
is_rag_no_answer(answer) ==
    \/ ~IsTruthyText(answer)
    \/ AnyContained(lower(Chars(answer)), RagNoAnswerSignals)

\* ControllerAgent._looks_time_sensitive
looks_time_sensitive(query) ==
    /\ AnyContained(lower(Chars(query)), TimeSensitiveSignals)
    /\ AnyContained(lower(Chars(query)), TimeSensitiveTopics)

\* one literal of `words` at position i, letter case ignored: the position after it, 0 when none
WordEndAt(s, i, words) ==
    LET hits == {k \in 1..Len(words) : LitAt(lower(s), i, words[k])}
    IN  IF hits = {} THEN 0 ELSE i + Len(words[Min(hits)])

\* (an?\s+)? at position i: the position after it (i itself when the group is skipped)
ArticleEnd(s, i) ==
    LET a == LitAt(lower(s), i, <<"a">>)
        an == LitAt(lower(s), i, <<"a", "n">>)
    IN  IF an /\ SpaceRunEnd(s, i + 2) > 0 THEN SpaceRunEnd(s, i + 2)
        ELSE IF a /\ SpaceRunEnd(s, i + 1) > 0 THEN SpaceRunEnd(s, i + 1)
        ELSE i

\* the image-command pattern at position i: the position after the match, 0 when none
ImageCommandEnd(s, i) ==
    LET verb == WordEndAt(s, i, ImageVerbs)
        sp1 == IF verb = 0 THEN 0 ELSE SpaceRunEnd(s, verb)
        art == IF sp1 = 0 THEN 0 ELSE ArticleEnd(s, sp1)
        noun == IF art = 0 THEN 0 ELSE WordEndAt(s, art, ImageNouns)
        sp2 == IF noun = 0 THEN 0 ELSE SpaceRunEnd(s, noun)
    IN  IF sp2 = 0 THEN 0
        ELSE IF LitAt(lower(s), sp2, <<"o", "f">>) /\ SpaceRunEnd(s, sp2 + 2) > 0
             THEN SpaceRunEnd(s, sp2 + 2)
             ELSE sp2

\* re.sub(image-command pattern, '', query, flags=re.IGNORECASE) from position i on
RECURSIVE RemoveImageCommands(_, _)
RemoveImageCommands(s, i) ==
    IF i > Len(s) THEN <<>>
    ELSE IF ImageCommandEnd(s, i) > 0 THEN RemoveImageCommands(s, ImageCommandEnd(s, i))
    ELSE <<s[i]>> \o RemoveImageCommands(s, i + 1)

\* the prompt _handle_image_generation derives from the query
image_prompt(query) == strip(RemoveImageCommands(Chars(query), 1))

\* the first city of timezone_map that query_lower contains, 0 when none
target_city(query) ==
    LET hits == {k \in 1..Len(TimezoneCities) : Contains(lower(Chars(query)), TimezoneCities[k])}
    IN  IF hits = {} THEN 0 ELSE Min(hits)

(***************************************************************************)
(* ControllerAgent: the handlers.  Each takes what its collaborators do    *)
(* and gives [raised, response, calls, sa, scans]: whether an exception    *)
(* leaves the handler, the text returned (the exception's message when     *)
(* raised), the collaborator calls made, and the scanner afterwards with   *)
(* the scans it ran; retrieved is what rag_agent.query answered.           *)
(***************************************************************************)
NoRetrieved == [kind |-> "<none>", answer |-> <<>>]

Handled(response, calls, sa) ==
    [raised |-> FALSE, response |-> response, calls |-> calls, sa |-> sa, scans |-> <<>>,
     retrieved |-> NoRetrieved]

reminder == "I'm focused on a few specific services right now. Try one of these: <services>"

time_sensitive_notice ==
    "I don't have reliable access to live sports/news results in this demo. I can still share general info if you rephrase, or you can ask about the features below."

routed_note == "Note: I couldn't answer from the system's data, so I routed this to the LLM."

\* one entry of the scan log: which call scanned, what the remote did, what came back
ScanEntry(agent_name, remote, sa, res) ==
    [agent_name |-> agent_name,
     remote |-> IF res.action_taken \in {"SKIP_DISABLED", "SKIP_CONFIG"} THEN "none" ELSE remote.kind,
     action_taken |-> res.action_taken,
     threat_detected |-> Truthy(res.threat_detected)]

\* ControllerAgent._handle_unknown
handle_unknown(query, routed_via_llm, llm, sa) ==
    IF looks_time_sensitive(query)
    THEN Handled(<<time_sensitive_notice, "\n\n", reminder>>, <<>>, sa)
    ELSE IF llm.kind = "text"
    THEN Handled(strip(Chars(llm.content))
                    \o (IF routed_via_llm THEN <<"\n\n", routed_note>> ELSE <<>>)
                    \o <<"\n\n", reminder>>,
                 <<"llm.unknown">>, sa)
    ELSE Handled(<<reminder>>, <<"llm.unknown">>, sa)

\* ControllerAgent._handle_rag_query
handle_rag_query(query, rag, llm, sa) ==
    LET fallback == handle_unknown(query, TRUE, llm, sa)
        answer == IF Contains(Chars(query), Words.y2026) THEN rag.answer \o <<Answers.note2026>> ELSE rag.answer
    IN  IF rag.kind = "raise" \/ is_rag_no_answer(answer)
        THEN [fallback EXCEPT !.calls = <<"rag_agent.query">> \o @, !.retrieved = rag]
        ELSE [Handled(answer, <<"rag_agent.query">>, sa) EXCEPT !.retrieved = rag]

\* ControllerAgent._handle_weather_query
handle_weather_query(location, date, weather, sa) ==
    IF weather.kind = "raise"
    THEN Handled(<<"Error fetching weather for ">> \o location \o <<": <e>">>,
                 <<"weather_agent.get_weather">>, sa)
    ELSE IF weather.kind = "error"
    THEN Handled(<<"Could not fetch weather: <error>">>, <<"weather_agent.get_weather">>, sa)
    ELSE Handled(<<"The weather in ">> \o location \o <<" on ">> \o date
                    \o <<" is: ", weather.condition, " with a temperature of ",
                         ToString(weather.temperature_c), "C. <humidity and wind>">>
                    \o (IF weather.rain_chance > 60 THEN <<"\n\nHigh chance of rain. Consider indoor activities!">>
                        ELSE IF weather.uv_index >= 8 THEN <<"\n\nHigh UV index. Remember sunscreen!">>
                        ELSE IF weather.temperature_c > 32 THEN <<"\n\nHigh temperature. Stay hydrated!">>
                        ELSE <<>>),
                 <<"weather_agent.get_weather">>, sa)

\* ControllerAgent._handle_recommendation
handle_recommendation(location, date, weather, events, rec, sa) ==
    IF weather.kind = "raise"
    THEN Handled(<<"Error: <e>">>, <<"weather_agent.get_weather">>, sa)
    ELSE IF events.kind = "raise"
    THEN Handled(<<"Error: <e>">>, <<"weather_agent.get_weather", "event_agent.get_events">>, sa)
    ELSE IF events.kind = "empty"
    THEN Handled(<<"No events in database for ">> \o date \o <<". Try asking about 2026 events!">>,
                 <<"weather_agent.get_weather", "event_agent.get_events">>, sa)
    ELSE IF rec.kind = "raise"
    THEN Handled(<<"Error: <e>">>,
                 <<"weather_agent.get_weather", "event_agent.get_events",
                   "recommendation_agent.generate_recommendation">>, sa)
    ELSE Handled(rec.content,
                 <<"weather_agent.get_weather", "event_agent.get_events",
                   "recommendation_agent.generate_recommendation">>, sa)

\* the get_events call of _handle_event_query, with the filters the query asks for
event_filters(query) ==
    IF Contains(lower(Chars(query)), Words.indoor) THEN "event_agent.get_events(indoor=True)"
    ELSE IF Contains(lower(Chars(query)), Words.outdoor) THEN "event_agent.get_events(indoor=False)"
    ELSE "event_agent.get_events()"

\* ControllerAgent._handle_event_query
handle_event_query(date, query, events, llm, sa) ==
    LET called == <<event_filters(query)>>
    IN  IF events.kind = "raise"
        THEN Handled(<<"Error processing event query: <e>">>, called, sa)
        ELSE IF events.kind = "empty"
        THEN Handled(<<"I couldn't find any events scheduled for ">> \o date \o <<".">>, called, sa)
        ELSE IF llm.kind = "raise"
        THEN Handled(<<"Error processing event query: <e>">>, called \o <<"llm.events">>, sa)
        ELSE IF llm.kind = "none"
        THEN Handled(NoneText, called \o <<"llm.events">>, sa)
        ELSE Handled(llm.content, called \o <<"llm.events">>, sa)

\* ControllerAgent._handle_image_generation.  The extra scan and get_safe_response
\* stand outside the handler's try: an exception there leaves the handler.
handle_image_generation(query, security_enabled, remote, image, sa) ==
    LET prompt == image_prompt(query)
    IN  IF Len(prompt) < 3
        THEN Handled(<<"Please provide a description for the image.">>, <<>>, sa)
        ELSE
        LET scanned == IF security_enabled
                       THEN scan_interaction(sa, <<"Image generation request: ">> \o prompt, NoneText, remote)
                       ELSE [res |-> AIRSResponse(TRUE, PyFalse, "<none>", Null), sa |-> sa]
            log == IF security_enabled
                   THEN <<ScanEntry("image_agent", remote, sa, scanned.res)>>
                   ELSE <<>>
            safe == get_safe_response(scanned.res.threat_type)
            generated ==
                IF image.kind = "raise"
                THEN Handled(<<"Error: <e>">>, <<"image_agent.generate_image">>, scanned.sa)
                ELSE Handled(<<"Here is your image based on '">> \o prompt \o <<"': <links to ", image.url, ">">>,
                             <<"image_agent.generate_image">>, scanned.sa)
        IN  IF security_enabled /\ Truthy(scanned.res.threat_detected)
            THEN [raised |-> ~safe.ok, response |-> safe.text, calls |-> <<>>,
                  sa |-> scanned.sa, scans |-> log, retrieved |-> NoRetrieved]
            ELSE [generated EXCEPT !.scans = log]

\* ControllerAgent._handle_time_query.  It has no try of its own: when the zoneinfo
\* import or ZoneInfo(target_tz) raises, the exception leaves the handler.
\* tz is "ok", "import_error" (no zoneinfo module) or "no_tzdata" (ZoneInfo(key) raises).
handle_time_query(query, tz, sa) ==
    LET query_lower == lower(Chars(query))
        city == target_city(query)
        location_str == IF city > 0 THEN <<" in ">> \o title(TimezoneCities[city]) ELSE <<" (local time)">>
        zone == IF city > 0 THEN <<"Timezone: <target_tz>">> ELSE <<>>
        has(word) == Contains(query_lower, word)
    IN  IF tz = "import_error"
        THEN [raised |-> TRUE, response |-> <<"No module named 'zoneinfo'">>, calls |-> <<>>,
              sa |-> sa, scans |-> <<>>, retrieved |-> NoRetrieved]
        ELSE IF city > 0 /\ tz = "no_tzdata"
        THEN [raised |-> TRUE, response |-> <<"No time zone found with key <target_tz>">>,
              calls |-> <<"zoneinfo.ZoneInfo">>, sa |-> sa, scans |-> <<>>,
              retrieved |-> NoRetrieved]
        ELSE
        LET calls == IF city > 0 THEN <<"zoneinfo.ZoneInfo">> ELSE <<>>
        IN  IF has(Words.tomorrow)
            THEN Handled(<<"**Tomorrow's Date">> \o location_str \o <<":** <tomorrow>">> \o zone, calls, sa)
            ELSE IF has(Words.yesterday)
            THEN Handled(<<"**Yesterday's Date">> \o location_str \o <<":** <yesterday>">> \o zone, calls, sa)
            ELSE IF has(Words.time) /\ ~has(Words.date)
            THEN Handled(<<"**Current Time">> \o location_str \o <<":** <time>">> \o zone, calls, sa)
            ELSE IF (has(Words.date) \/ has(Words.day) \/ has(Words.today)) /\ ~has(Words.time)
            THEN Handled(<<"**Today's Date">> \o location_str \o <<":** <date>">> \o zone, calls, sa)
            ELSE Handled(<<"**Current Date & Time">> \o location_str \o <<":** <date and time>">>
                            \o zone \o <<"**Tomorrow will be:** <tomorrow>">>, calls, sa)

(***************************************************************************)
(* The environment: the queries asked and what each collaborator does.     *)
(***************************************************************************)
\* how many handle_query calls a run makes
MaxQueries == 1

\* how many health checks a run makes
MaxHealthChecks == 1

\* the max_history the ChatAgent is built with
MaxHistory == 2


Queries ==
    {<<Query.weather>>, <<Query.events>>, <<Query.image>>, <<Query.news>>, <<Query.time>>,
     NoneText}

Flags(a, b) == [kind |-> "dict", items |-> <<[key |-> "injection", val |-> a], [key |-> "dlp", val |-> b]>>]

Payload(status, threats, action, details) ==
    [shape |-> "dict", status |-> status, threats |-> threats, risk_score |-> Absent,
     action |-> action, details |-> details]

Details(category, action, prompt_detected, response_detected) ==
    [kind |-> "dict", category |-> category, action |-> action,
     prompt_detected |-> prompt_detected, response_detected |-> response_detected]

ThreatList(types) == [kind |-> "list", items |-> [i \in 1..Len(types) |-> [dict |-> TRUE, type |-> types[i]]]]

\* the payloads the remote service answers with:
\*   benign            nothing found
\*   malicious         a verdict reported in details: category malicious, action block
\*   injection         a threat list naming a known threat type, no action given
\*   numeric_type      a threat list whose first entry has a number for its type
\*   not_object        a JSON body that is no object
\*   null_details      "details": null
\*   threat_null_action  a reported threat with "action": null
Payloads ==
    LET benign == Payload("completed", ThreatList(<<>>), "allow",
                          Details("benign", "allow", Flags(FALSE, FALSE), Flags(FALSE, FALSE)))
    IN  [benign |-> benign,
         malicious |-> Payload(Absent, NoThreats, Absent,
                               Details("malicious", "block", Flags(TRUE, FALSE), Flags(FALSE, FALSE))),
         injection |-> Payload("threat", ThreatList(<<"PROMPT_INJECTION">>), Absent, NoDetails),
         numeric_type |-> Payload("threat", ThreatList(<<Int7>>), "block", NoDetails),
         not_object |-> [benign EXCEPT !.shape = "other"],
         null_details |-> [benign EXCEPT !.details = [NoDetails EXCEPT !.kind = "null"]],
         threat_null_action |-> Payload("threat", ThreatList(<<"PROMPT_INJECTION">>), Null, NoDetails),
         flagged_allow |-> Payload("completed", ThreatList(<<>>), "allow",
                                   Details("malicious", "allow", Flags(FALSE, FALSE), Flags(FALSE, FALSE)))]

Remote(kind, code, body, elapsed) == [kind |-> kind, code |-> code, body |-> body, elapsed |-> elapsed]

\* what the remote service does to the scans of a query
Remotes ==
    {Remote("json", 200, Payloads.benign, 2),
     Remote("json", 200, Payloads.malicious, 2),
     Remote("json", 200, Payloads.numeric_type, 2),
     Remote("json", 200, Payloads.not_object, 2),
     Remote("http", 500, Payloads.benign, 0),
     Remote("timeout", 0, Payloads.benign, 0)}

\* what the remote service does to a scan made on its own: the above, a body that
\* is no JSON, HTTP errors and a refused connection
ScanRemotes ==
    Remotes \cup
    {Remote("json", 200, Payloads.injection, 2),
     Remote("json", 200, Payloads.null_details, 2),
     Remote("json", 200, Payloads.threat_null_action, 2),
     Remote("bad_json", 200, Payloads.benign, 0),
     Remote("http", 403, Payloads.benign, 0),
     Remote("http", 401, Payloads.benign, 0),
     Remote("connection", 0, Payloads.benign, 0)}

Completion(kind, content) == [kind |-> kind, content |-> content]

\* what the completion provider answers to the classification prompt
Completions ==
    {Completion("raise", <<>>), Completion("none", <<>>),
     Completion("text", <<Piece.event, Piece.please>>), Completion("text", <<Piece.recommendation>>),
     Completion("text", <<Piece.rag, Piece.newline>>), Completion("text", <<Piece.image>>),
     Completion("text", <<Piece.weather>>), Completion("text", <<Piece.time>>),
     Completion("text", <<Piece.unknown>>), Completion("text", <<Piece.banana>>)}

\* what the completion provider answers to a handler
Replies ==
    {Completion("raise", <<>>), Completion("none", <<>>), Completion("text", <<Answers.llm>>)}

Weather(kind, condition, temperature_c, rain_chance, uv_index) ==
    [kind |-> kind, condition |-> condition, temperature_c |-> temperature_c,
     rain_chance |-> rain_chance, uv_index |-> uv_index]

Weathers ==
    {Weather("raise", "", 0, 0, 0), Weather("error", "", 0, 0, 0),
     Weather("data", "Clear", 29, 10, 3), Weather("data", "Rain", 26, 80, 1)}

EventLists == {[kind |-> "raise"], [kind |-> "empty"], [kind |-> "some"]}

Recommendations == {Completion("raise", <<>>), Completion("text", <<"<recommendations>">>)}

RagAnswers ==
    {[kind |-> "raise", answer |-> <<>>], [kind |-> "text", answer |-> <<>>],
     [kind |-> "text", answer |-> <<Answers.no_docs>>], [kind |-> "text", answer |-> <<Answers.dont_know>>],
     [kind |-> "text", answer |-> <<Answers.answer>>]}

Images == {[kind |-> "raise", url |-> ""], [kind |-> "url", url |-> "<image_url>"]}

Zones == {"ok", "import_error", "no_tzdata"}

\* how many handle_query calls a session makes
MaxSessionQueries == 3

\* the environment of a session of several calls: one query text, a scan service
\* that finds nothing or reports a malicious prompt, a classifier that answers with
\* the weather, the time or the image label, a weather service and an image service
\* that answer, and no time zone library
SessionEnv ==
    [max_queries |-> MaxSessionQueries,
     queries |-> {<<Query.weather>>},
     remotes |-> {Remote("json", 200, Payloads.benign, 2), Remote("json", 200, Payloads.malicious, 2)},
     completions |-> {Completion("text", <<Piece.weather>>), Completion("text", <<Piece.time>>),
                      Completion("text", <<Piece.image>>)},
     weathers |-> {Weather("data", "Clear", 29, 10, 3)},
     zones |-> {"import_error"},
     images |-> {[kind |-> "url", url |-> "<image_url>"]}]

\* the environment of the termination check: a short query, a query that is no text,
\* a scan service that finds nothing or reports a threat of a numeric type,
\* a classifier that answers with each label or fails, and collaborators that
\* answer or raise
LiveEnv ==
    [max_queries |-> MaxQueries,
     queries |-> {<<"hi">>, NoneText},
     remotes |-> {Remote("json", 200, Payloads.benign, 2),
                  Remote("json", 200, Payloads.numeric_type, 2)},
     completions |-> {Completion("raise", <<>>),
                      Completion("text", <<Piece.event, Piece.please>>),
                      Completion("text", <<Piece.recommendation>>),
                      Completion("text", <<Piece.rag, Piece.newline>>),
                      Completion("text", <<Piece.image>>),
                      Completion("text", <<Piece.weather>>),
                      Completion("text", <<Piece.time>>)},
     weathers |-> {Weather("raise", "", 0, 0, 0), Weather("data", "Clear", 29, 10, 3)},
     zones |-> {"ok", "import_error"},
     images |-> Images]

\* the environment in which the scan service gives each kind of verdict: nothing
\* found, a category that is not benign under the action "allow", and a category
\* that is not benign under the action "block"
VerdictEnv ==
    [max_queries |-> MaxQueries,
     queries |-> {<<Query.weather>>},
     remotes |-> {Remote("json", 200, Payloads.benign, 2),
                  Remote("json", 200, Payloads.flagged_allow, 2),
                  Remote("json", 200, Payloads.malicious, 2)},
     completions |-> {Completion("text", <<Piece.weather>>)},
     weathers |-> {Weather("data", "Clear", 29, 10, 3), Weather("error", "", 0, 0, 0)},
     zones |-> {"ok"},
     images |-> Images]

\* what the environment of the run offers
Env(e) ==
    IF e = "session" THEN SessionEnv
    ELSE IF e = "live" THEN LiveEnv
    ELSE IF e = "verdict" THEN VerdictEnv
    ELSE [max_queries |-> MaxQueries, queries |-> Queries, remotes |-> Remotes,
          completions |-> Completions, weathers |-> Weathers, zones |-> Zones,
          images |-> Images]

(***************************************************************************)
(* State                                                                   *)
(***************************************************************************)
VARIABLES
    security_agent,     \* the SecurityAgent handed to the controller
    security_enabled,   \* ControllerAgent.security_enabled
    chat_agent,         \* the ChatAgent
    now_day,            \* the reference clock's day
    pc,                 \* where the current handle_query call stands
    user_query,         \* handle_query's argument
    prompt_scan,        \* locals of handle_query
    location,
    date,
    intent,
    response,
    response_scan,
    result,             \* the payload returned to the caller
    completion,         \* what the completion provider answered to the classifier
    retrieved,          \* what rag_agent.query answered to _handle_rag_query
    exception,          \* the exception raised during the current call, if any
    calls,              \* collaborator calls made by the current call's handler
    scans,              \* the scans run during the current call
    env,                \* which environment the run is made in: "full" or "session"
    queries,            \* handle_query calls made so far
    history_before,     \* the conversation history when the current call began
    answered,           \* the entries of the earlier calls that returned along the normal path
    flagged,            \* how many earlier calls returned SECURITY_BLOCKED or SECURITY_FILTERED
    health,             \* health_check calls made so far, and the last one's answer
    sc_call,            \* scanner alone: the last scan_interaction call [prompt, response, remote]
    sc_result,          \* scanner alone: what that call returned
    sc_before,          \* scanner alone: the scanner as it was before that call
    sc_count,           \* scanner alone: scan_interaction calls made
    ch_inserted,        \* chat agent alone: the entries inserted since the last clear_history
    ch_count,           \* chat agent alone: add_to_history calls made
    cl_completion,      \* the classifier on its own: the completion and the label
    cl_label,
    ex_calls,           \* extractor alone: the extract_entities calls made so far, each
                        \* [asked, today, before, location, date]
    id_clock,           \* request ids alone: time.time() in milliseconds
    id_issued           \* request ids alone: the tr_id of every request built so far

vars ==
    <<security_agent, security_enabled, chat_agent, now_day, pc, user_query, prompt_scan,
      location, date, intent, response, response_scan, result, completion, retrieved,
      exception, calls, scans, env, queries, history_before, answered, flagged, health, sc_call, sc_result, sc_before,
      sc_count, ch_inserted, ch_count, cl_completion, cl_label, ex_calls, id_clock,
      id_issued>>

locals ==
    <<prompt_scan, location, date, intent, response, response_scan, completion, retrieved,
      exception, calls, scans>>

\* no exception so far
NoException == [step |-> "<none>", message |-> <<>>]

Raised(step, message) == [step |-> step, message |-> message]

NoCompletion == [kind |-> "<none>", content |-> <<>>]

classifier_vars == <<cl_completion, cl_label>>

scanner_vars == <<sc_call, sc_result, sc_before, sc_count>>

chat_vars == <<ch_inserted, ch_count>>

request_vars == <<ex_calls, id_clock, id_issued>>

standalone_vars == <<classifier_vars, scanner_vars, chat_vars, env, request_vars>>

\* a local not yet assigned
NoScan == AIRSResponse(TRUE, PyFalse, "<unset>", Null)

NoSide ==
    [threat_detected |-> PyFalse, threat_type |-> Null, risk_score |-> Null,
     action_taken |-> Null, details |-> Null]

NoResult ==
    [keys |-> {}, response |-> <<>>, intent |-> "<none>", security_status |-> Null,
     threat_type |-> Null, scan_time_ms |-> 0, security |-> [prompt |-> NoSide, response |-> NoSide]]

\* a blocked payload that reports a scan time of zero
BlockedResultZeroScanTime(safe_response, threat_type) ==
    [NoResult EXCEPT !.keys = {"response", "intent", "security_status", "threat_type",
                               "scan_time_ms"},
                     !.response = safe_response, !.intent = "SECURITY_BLOCKED",
                     !.security_status = "blocked", !.threat_type = threat_type]

\* the dict returned when the pre-scan blocks
BlockedResult(safe_response, threat_type) ==
    [NoResult EXCEPT !.keys = {"response", "intent", "security_status", "threat_type"},
                     !.response = safe_response, !.intent = "SECURITY_BLOCKED",
                     !.security_status = "blocked", !.threat_type = threat_type]

\* the dict returned by the except branch of handle_query
ErrorResult(message) ==
    [NoResult EXCEPT !.keys = {"response", "intent"},
                     !.response = <<"Error processing request: ">> \o message,
                     !.intent = "ERROR"]

Side(scan) ==
    [threat_detected |-> scan.threat_detected, threat_type |-> scan.threat_type,
     risk_score |-> scan.risk_score, action_taken |-> scan.action_taken, details |-> scan.details]

\* x or 0
OrZero(ms) == IF ms > 0 THEN ms ELSE 0

\* the dict returned on the normal path
NormalResult(enabled, resp, label, pscan, rscan) ==
    IF enabled
    THEN [NoResult EXCEPT
            !.keys = {"response", "intent", "security_scanned", "scan_time_ms", "security"},
            !.response = resp, !.intent = label,
            !.scan_time_ms = OrZero(pscan.scan_time_ms) + OrZero(rscan.scan_time_ms),
            !.security = [prompt |-> Side(pscan), response |-> Side(rscan)]]
    ELSE [NoResult EXCEPT !.keys = {"response", "intent"}, !.response = resp, !.intent = label]

filtered_note == "\n\n_Note: The original response was filtered for security reasons._"

Terminal == {"idle", "returned", "error", "raised"}

MainInit ==
    /\ \E api_key \in {"", "<key>"}, eps \in BOOLEAN, ers \in BOOLEAN, block \in BOOLEAN :
          /\ (api_key = "" => eps /\ ers /\ ~block)
          /\ security_agent = SecurityAgentInit(api_key, eps, ers, block)
          /\ security_enabled = (api_key /= "")
    /\ chat_agent = ChatAgentInit(MaxHistory)
    /\ now_day = 0
    /\ pc = "idle"
    /\ user_query = <<>>
    /\ prompt_scan = NoScan
    /\ location = <<>>
    /\ date = <<>>
    /\ intent = "<none>"
    /\ response = <<>>
    /\ response_scan = NoScan
    /\ result = NoResult
    /\ completion = NoCompletion
    /\ retrieved = NoRetrieved
    /\ exception = NoException
    /\ calls = <<>>
    /\ scans = <<>>
    /\ queries = 0
    /\ history_before = <<>>
    /\ answered = <<>>
    /\ flagged = 0
    /\ health = [count |-> 0, healthy |-> FALSE]
    /\ ex_calls = <<>>
    /\ id_clock = 0
    /\ id_issued = <<>>

NoScanCall == [prompt |-> NoneText, response |-> NoneText, remote |-> Remote("<none>", 0, Payloads.benign, 0)]

\* the harness that calls the scanner alone is not running
ScannerIdle ==
    /\ sc_call = NoScanCall
    /\ sc_result = NoScan
    /\ sc_before = security_agent
    /\ sc_count = 0

\* the harness that calls the classifier alone is not running
ClassifierIdle == cl_completion = Completion("raise", <<>>) /\ cl_label = "<none>"

\* the harness that calls the chat agent alone is not running
ChatIdle == ch_inserted = <<>> /\ ch_count = 0

Init == MainInit /\ ScannerIdle /\ ClassifierIdle /\ ChatIdle /\ env = "full"

(***************************************************************************)
(* ControllerAgent.handle_query, step by step                              *)
(***************************************************************************)
\* the caller calls handle_query(user_query)
Begin ==
    /\ pc \in Terminal
    /\ queries < Env(env).max_queries
    /\ \E q \in Env(env).queries : user_query' = q
    /\ pc' = "received"
    /\ queries' = queries + 1
    /\ prompt_scan' = NoScan
    /\ location' = <<>>
    /\ date' = <<>>
    /\ intent' = "<none>"
    /\ response' = <<>>
    /\ response_scan' = NoScan
    /\ result' = NoResult
    /\ completion' = NoCompletion
    /\ retrieved' = NoRetrieved
    /\ exception' = NoException
    /\ calls' = <<>>
    /\ scans' = <<>>
    /\ history_before' = chat_agent.conversation_history
    /\ answered' = IF pc = "returned" /\ result.intent /= "SECURITY_BLOCKED"
                   THEN Append(answered, [query |-> user_query, response |-> result.response,
                                          timestamp |-> now_day])
                   ELSE answered
    /\ flagged' = IF pc = "returned" /\ result.intent \in {"SECURITY_BLOCKED", "SECURITY_FILTERED"}
                  THEN flagged + 1
                  ELSE flagged
    /\ UNCHANGED <<security_agent, security_enabled, chat_agent, now_day, health, standalone_vars>>

\* a pre-scan made after the place and the date have been read in the query
PreScanExtractingFirst ==
    /\ pc = "received"
    /\ chat_agent' = extract_entities(chat_agent, user_query, now_day).ca
    /\ IF security_enabled
       THEN \E remote \in Env(env).remotes :
               LET scanned == scan_interaction(security_agent, user_query, NoneText, remote)
                   safe == get_safe_response(scanned.res.threat_type)
                   block == Truthy(scanned.res.threat_detected) /\ security_agent.block_on_threat
               IN  /\ security_agent' = scanned.sa
                   /\ prompt_scan' = scanned.res
                   /\ scans' = Append(scans, ScanEntry("controller_input", remote, security_agent, scanned.res))
                   /\ pc' = IF ~block THEN "pre_scanned" ELSE IF safe.ok THEN "returned" ELSE "raised"
                   /\ result' = IF block /\ safe.ok
                                THEN BlockedResult(safe.text, scanned.res.threat_type)
                                ELSE result
                   /\ exception' = IF block /\ ~safe.ok THEN Raised("pre_scan", safe.text)
                                   ELSE exception
       ELSE /\ pc' = "pre_scanned"
            /\ UNCHANGED <<security_agent, prompt_scan, scans, result, exception>>
    /\ UNCHANGED <<security_enabled, now_day, user_query, location, date, intent,
                   response, response_scan, completion, retrieved, calls, queries, health,
                   history_before, answered, flagged,
                   standalone_vars>>

\* a pre-scan that lets through what the scan result calls safe
PreScanTrustingIsSafe ==
    /\ pc = "received"
    /\ IF security_enabled
       THEN \E remote \in Env(env).remotes :
               LET scanned == scan_interaction(security_agent, user_query, NoneText, remote)
                   safe == get_safe_response(scanned.res.threat_type)
                   block == /\ Truthy(scanned.res.threat_detected) /\ security_agent.block_on_threat
                            /\ ~scanned.res.is_safe
               IN  /\ security_agent' = scanned.sa
                   /\ prompt_scan' = scanned.res
                   /\ scans' = Append(scans, ScanEntry("controller_input", remote, security_agent, scanned.res))
                   /\ pc' = IF ~block THEN "pre_scanned" ELSE IF safe.ok THEN "returned" ELSE "raised"
                   /\ result' = IF block /\ safe.ok
                                THEN BlockedResult(safe.text, scanned.res.threat_type)
                                ELSE result
                   /\ exception' = IF block /\ ~safe.ok THEN Raised("pre_scan", safe.text)
                                   ELSE exception
       ELSE /\ pc' = "pre_scanned"
            /\ UNCHANGED <<security_agent, prompt_scan, scans, result, exception>>
    /\ UNCHANGED <<security_enabled, chat_agent, now_day, user_query, location, date, intent,
                   response, response_scan, completion, retrieved, calls, queries, health,
                   history_before, answered, flagged,
                   standalone_vars>>

\* SECURITY STEP 1: scan the incoming prompt; block when a threat is found and
\* block_on_threat is set.  get_safe_response is called outside any try.
PreScan ==
    /\ pc = "received"
    /\ IF security_enabled
       THEN \E remote \in Env(env).remotes :
               LET scanned == scan_interaction(security_agent, user_query, NoneText, remote)
                   safe == get_safe_response(scanned.res.threat_type)
                   block == Truthy(scanned.res.threat_detected) /\ security_agent.block_on_threat
               IN  /\ security_agent' = scanned.sa
                   /\ prompt_scan' = scanned.res
                   /\ scans' = Append(scans, ScanEntry("controller_input", remote, security_agent, scanned.res))
                   /\ pc' = IF ~block THEN "pre_scanned" ELSE IF safe.ok THEN "returned" ELSE "raised"
                   /\ result' = IF block /\ safe.ok
                                THEN BlockedResult(safe.text, scanned.res.threat_type)
                                ELSE result
                   /\ exception' = IF block /\ ~safe.ok THEN Raised("pre_scan", safe.text)
                                   ELSE exception
       ELSE /\ pc' = "pre_scanned"
            /\ UNCHANGED <<security_agent, prompt_scan, scans, result, exception>>
    /\ UNCHANGED <<security_enabled, chat_agent, now_day, user_query, location, date, intent,
                   response, response_scan, completion, retrieved, calls, queries, health,
                   history_before, answered, flagged,
                   standalone_vars>>

\* location, date = self.chat_agent.extract_entities(user_query), outside the try
Extract ==
    /\ pc = "pre_scanned"
    /\ LET e == extract_entities(chat_agent, user_query, now_day)
       IN  /\ pc' = IF e.ok THEN "extracted" ELSE "raised"
           /\ chat_agent' = e.ca
           /\ location' = e.location
           /\ date' = e.date
           /\ exception' = IF e.ok THEN exception
                           ELSE Raised("extract", <<"expected string or bytes-like object">>)
    /\ UNCHANGED <<security_agent, security_enabled, now_day, user_query, prompt_scan, intent,
                   response, response_scan, result, completion, retrieved, calls, scans, queries,
                   health, history_before, answered, flagged,
                   standalone_vars>>

\* intent = self._classify_intent(user_query, date), outside the try
Classify ==
    /\ pc = "extracted"
    /\ \E c \in Env(env).completions :
          /\ completion' = c
          /\ intent' = classify_intent(c)
    /\ pc' = "classified"
    /\ calls' = Append(calls, "llm.classify")
    /\ UNCHANGED <<security_agent, security_enabled, chat_agent, now_day, user_query, prompt_scan,
                   location, date, response, response_scan, result, retrieved, exception, scans,
                   queries, health, history_before, answered, flagged,
                   standalone_vars>>

\* the outcome of the handler the intent routes to
Routed(h) ==
    /\ security_agent' = h.sa
    /\ calls' = calls \o h.calls
    /\ scans' = scans \o h.scans
    /\ retrieved' = h.retrieved
    /\ IF h.raised
       THEN /\ pc' = "error"
            /\ result' = ErrorResult(h.response)
            /\ exception' = Raised("dispatch", h.response)
            /\ UNCHANGED response
       ELSE /\ pc' = "dispatched"
            /\ response' = h.response
            /\ UNCHANGED <<result, exception>>
    /\ UNCHANGED <<security_enabled, chat_agent, now_day, user_query, prompt_scan, location, date,
                   intent, response_scan, completion, queries, health, history_before, answered, flagged,
                   standalone_vars>>

DispatchImage ==
    /\ pc = "classified" /\ intent = "IMAGE_GENERATION"
    /\ \E remote \in Env(env).remotes, image \in Env(env).images :
          Routed(handle_image_generation(user_query, security_enabled, remote, image, security_agent))

DispatchRag ==
    /\ pc = "classified" /\ intent = "RAG_QUERY"
    /\ \E rag \in RagAnswers, llm \in Replies :
          Routed(handle_rag_query(user_query, rag, llm, security_agent))

DispatchEvent ==
    /\ pc = "classified" /\ intent = "EVENT_QUERY_DB"
    /\ \E events \in EventLists, llm \in Replies :
          Routed(handle_event_query(date, user_query, events, llm, security_agent))

DispatchRecommendation ==
    /\ pc = "classified" /\ intent = "RECOMMENDATION"
    /\ \E weather \in Weathers, events \in EventLists, rec \in Recommendations :
          Routed(handle_recommendation(location, date, weather, events, rec, security_agent))

DispatchWeather ==
    /\ pc = "classified" /\ intent = "WEATHER_QUERY"
    /\ \E weather \in Env(env).weathers :
          Routed(handle_weather_query(location, date, weather, security_agent))

DispatchTime ==
    /\ pc = "classified" /\ intent = "TIME_QUERY"
    /\ \E tz \in Env(env).zones : Routed(handle_time_query(user_query, tz, security_agent))

DispatchUnknown ==
    /\ pc = "classified"
    /\ intent \notin {"IMAGE_GENERATION", "RAG_QUERY", "EVENT_QUERY_DB", "RECOMMENDATION",
                      "WEATHER_QUERY", "TIME_QUERY"}
    /\ \E llm \in Replies : Routed(handle_unknown(user_query, TRUE, llm, security_agent))

\* SECURITY STEP 2: scan the response; filter it when a threat is found and
\* block_on_threat is set.  An exception here is caught by handle_query's except.
PostScan ==
    /\ pc = "dispatched"
    /\ IF security_enabled
       THEN \E remote \in Env(env).remotes :
               LET scanned == scan_interaction(security_agent, user_query, response, remote)
                   safe == get_safe_response(scanned.res.threat_type)
                   block == Truthy(scanned.res.threat_detected) /\ security_agent.block_on_threat
               IN  /\ security_agent' = scanned.sa
                   /\ response_scan' = scanned.res
                   /\ scans' = Append(scans, ScanEntry("controller_intent", remote, security_agent, scanned.res))
                   /\ IF block /\ ~safe.ok
                      THEN /\ pc' = "error"
                           /\ result' = ErrorResult(safe.text)
                           /\ exception' = Raised("post_scan", safe.text)
                           /\ UNCHANGED <<response, intent>>
                      ELSE /\ pc' = "post_scanned"
                           /\ response' = IF block THEN safe.text \o <<filtered_note>> ELSE response
                           /\ intent' = IF block THEN "SECURITY_FILTERED" ELSE intent
                           /\ UNCHANGED <<result, exception>>
       ELSE /\ pc' = "post_scanned"
            /\ UNCHANGED <<security_agent, response_scan, scans, response, intent, result, exception>>
    /\ UNCHANGED <<security_enabled, chat_agent, now_day, user_query, prompt_scan, location, date,
                   completion, retrieved, calls, queries, health, history_before, answered, flagged,
                   standalone_vars>>

\* a controller that writes the history before the response has been scanned
RecordBeforePostScan ==
    /\ pc = "dispatched"
    /\ chat_agent' = add_to_history(chat_agent, user_query, response, now_day)
    /\ pc' = "recorded"
    /\ UNCHANGED <<security_agent, security_enabled, now_day, user_query, locals, result, queries,
                   health, history_before, answered, flagged,
                   standalone_vars>>

\* self.chat_agent.add_to_history(user_query, response)
Record ==
    /\ pc = "post_scanned"
    /\ chat_agent' = add_to_history(chat_agent, user_query, response, now_day)
    /\ pc' = "recorded"
    /\ UNCHANGED <<security_agent, security_enabled, now_day, user_query, locals, result, queries,
                   health, history_before, answered, flagged,
                   standalone_vars>>

\* return result
Return ==
    /\ pc = "recorded"
    /\ result' = NormalResult(security_enabled, response, intent, prompt_scan, response_scan)
    /\ pc' = "returned"
    /\ UNCHANGED <<security_agent, security_enabled, chat_agent, now_day, user_query, locals,
                   queries, health, history_before, answered, flagged,
                   standalone_vars>>

\* SecurityAgent.health_check, which the application calls on the agent it has just
\* built, before it hands the agent to the controller
HealthCheck ==
    /\ pc = "idle"
    /\ health.count < MaxHealthChecks
    /\ IF ~security_agent.enabled
       THEN /\ health' = [count |-> health.count + 1, healthy |-> FALSE]
            /\ UNCHANGED <<security_agent, sc_call, sc_result, sc_before>>
       ELSE \E remote \in ScanRemotes :
               LET test_result == scan_interaction(security_agent, <<"health check test">>,
                                                   <<"test response">>, remote)
               IN  /\ security_agent' = test_result.sa
                   /\ health' = [count |-> health.count + 1,
                                 healthy |-> test_result.res.action_taken \in {"ALLOW", "LOGGED"}]
                   /\ sc_call' = [prompt |-> <<"health check test">>,
                                  response |-> <<"test response">>, remote |-> remote]
                   /\ sc_result' = test_result.res
                   /\ sc_before' = security_agent
    /\ UNCHANGED <<security_enabled, chat_agent, now_day, pc, user_query, locals, result, queries,
                   history_before, answered, flagged, sc_count, classifier_vars, chat_vars, env, request_vars>>

Next ==
    \/ Begin
    \/ PreScan
    \/ Extract
    \/ Classify
    \/ DispatchImage
    \/ DispatchRag
    \/ DispatchEvent
    \/ DispatchRecommendation
    \/ DispatchWeather
    \/ DispatchTime
    \/ DispatchUnknown
    \/ PostScan
    \/ Record
    \/ Return

Spec == Init /\ [][Next]_vars

(***************************************************************************)
(* A session: several handle_query calls, one after the other, in the      *)
(* session environment                                                     *)
(***************************************************************************)
InitSession == MainInit /\ ScannerIdle /\ ClassifierIdle /\ ChatIdle /\ env = "session"

NextSession ==
    \/ Begin
    \/ PreScan
    \/ Extract
    \/ Classify
    \/ DispatchImage
    \/ DispatchWeather
    \/ DispatchTime
    \/ PostScan
    \/ Record
    \/ Return

SpecSession == InitSession /\ [][NextSession]_vars

(***************************************************************************)
(* The classifier on its own, over completions built from a few pieces     *)
(***************************************************************************)
\* how many pieces a completion text is built from
MaxPieces == 2

Pieces ==
    {Piece.event, Piece.recommendation, Piece.rag, Piece.image, Piece.weather, Piece.time,
     Piece.unknown, Piece.please, Piece.banana, Piece.newline, Piece.broken_label}

RECURSIVE TextsUpTo(_)
TextsUpTo(n) ==
    IF n = 0 THEN {<<>>}
    ELSE TextsUpTo(n - 1) \cup {Append(t, p) : t \in TextsUpTo(n - 1), p \in Pieces}

ClassifierCompletions ==
    {Completion("raise", <<>>), Completion("none", <<>>)}
        \cup {Completion("text", t) : t \in TextsUpTo(MaxPieces)}

InitClassify ==
    /\ MainInit
    /\ ScannerIdle
    /\ ChatIdle
    /\ env = "full"
    /\ cl_completion \in ClassifierCompletions
    /\ cl_label = "<pending>"

\* one call of _classify_intent
ClassifyCall ==
    /\ cl_label = "<pending>"
    /\ cl_label' = classify_intent(cl_completion)
    /\ UNCHANGED <<security_agent, security_enabled, chat_agent, now_day, pc, user_query, locals,
                   result, queries, history_before, answered, flagged, health, cl_completion, scanner_vars, chat_vars,
                   env, request_vars>>

NextClassify == ClassifyCall

SpecClassify == InitClassify /\ [][NextClassify]_vars

(***************************************************************************)
(* The scanner on its own: a caller makes scan_interaction and             *)
(* health_check calls against every outcome of the remote service          *)
(***************************************************************************)
\* how many scan_interaction calls the caller makes
MaxScans == 2

ScanTexts == {NoneText, <<"hello">>}

InitScan == MainInit /\ ScannerIdle /\ ClassifierIdle /\ ChatIdle /\ env = "full"

\* one call of scan_interaction(prompt, response)
ScanCall ==
    /\ sc_count < MaxScans
    /\ \E prompt \in ScanTexts \cup {<<>>}, reply \in ScanTexts, remote \in ScanRemotes :
          LET scanned == scan_interaction(security_agent, prompt, reply, remote)
          IN  /\ sc_call' = [prompt |-> prompt, response |-> reply, remote |-> remote]
              /\ sc_result' = scanned.res
              /\ sc_before' = security_agent
              /\ security_agent' = scanned.sa
    /\ sc_count' = sc_count + 1
    /\ UNCHANGED <<security_enabled, chat_agent, now_day, pc, user_query, locals, result, queries,
                   history_before, answered, flagged, health, classifier_vars, chat_vars, env, request_vars>>

NextScan == ScanCall \/ HealthCheck

SpecScan == InitScan /\ [][NextScan]_vars

(***************************************************************************)
(* The chat agent on its own: a caller inserts entries and clears          *)
(***************************************************************************)
\* how many add_to_history calls the caller makes
MaxAdds == 4

ChatTexts == {<<"question">>, <<"answer">>}

InitChat == MainInit /\ ScannerIdle /\ ClassifierIdle /\ ChatIdle /\ env = "full"

\* one call of add_to_history(query, response); the call's number stands for its time
AddCall ==
    /\ ch_count < MaxAdds
    /\ \E query \in ChatTexts, reply \in ChatTexts :
          /\ chat_agent' = add_to_history(chat_agent, query, reply, ch_count)
          /\ ch_inserted' = Append(ch_inserted,
                                   [query |-> query, response |-> reply, timestamp |-> ch_count])
    /\ ch_count' = ch_count + 1
    /\ UNCHANGED <<security_agent, security_enabled, now_day, pc, user_query, locals, result,
                   queries, history_before, answered, flagged, health, classifier_vars, scanner_vars, env, request_vars>>

\* one call of clear_history()
ClearCall ==
    /\ ch_inserted /= <<>>
    /\ chat_agent' = clear_history(chat_agent)
    /\ ch_inserted' = <<>>
    /\ UNCHANGED <<security_agent, security_enabled, now_day, pc, user_query, locals, result,
                   queries, history_before, answered, flagged, health, classifier_vars, scanner_vars, ch_count,
                   env, request_vars>>

NextChat == AddCall \/ ClearCall

SpecChat == InitChat /\ [][NextChat]_vars

(***************************************************************************)
(* The payload parser on its own: _parse_airs_response applied to one      *)
(* decoded payload                                                         *)
(***************************************************************************)
\* the payloads the remote service may answer with: every combination of a status, a
\* threat list, a top-level action, and a category, an action and detection maps in
\* details
ParsePayloads ==
    {Payload(status, threats, action, Details(category, details_action, pd, rd)) :
        status \in {Absent, "completed", "threat", "THREAT"},
        threats \in {NoThreats, ThreatList(<<>>), ThreatList(<<"malicious">>),
                     [kind |-> "null", items |-> <<>>]},
        action \in {Absent, "allow", "block", "BLOCK", Null},
        category \in {Absent, "benign", "Benign", "malicious"},
        details_action \in {Absent, "allow", "Block"},
        pd \in {NoMap, Flags(FALSE, FALSE), Flags(TRUE, FALSE)},
        rd \in {NoMap, Flags(FALSE, TRUE)}}

InitParse ==
    /\ MainInit
    /\ ClassifierIdle
    /\ ChatIdle
    /\ env = "full"
    /\ \E payload \in ParsePayloads :
          sc_call = [prompt |-> NoneText, response |-> NoneText,
                     remote |-> Remote("json", 200, payload, 0)]
    /\ sc_result = NoScan
    /\ sc_before = security_agent
    /\ sc_count = 0

\* self._parse_airs_response(airs_response)
ParseCall ==
    /\ sc_count = 0
    /\ sc_result' = parse_airs_response(sc_call.remote.body, security_agent.block_on_threat)
    /\ sc_count' = 1
    /\ UNCHANGED <<security_agent, security_enabled, chat_agent, now_day, pc, user_query, locals,
                   result, queries, history_before, answered, flagged, health, sc_call, sc_before,
                   classifier_vars, chat_vars, env, request_vars>>

NextParse == ParseCall

SpecParse == InitParse /\ [][NextParse]_vars

(***************************************************************************)
(* The context extractor on its own: extract_entities called again and     *)
(* again while the days go by                                              *)
(***************************************************************************)
\* how many calls are made, and how many days go by
MaxExtracts == 3

MaxDay == 1

\* a query as typed, with what a reader finds in it: the capitalized phrase after a
\* locative preposition, the YYYY-MM-DD token, and the day keyword
Asked(text, place, token, keyword) ==
    [text |-> text, place |-> place, token |-> token, keyword |-> keyword]

\* "in Paris", "near New York today", "tomorrow", "hello", "rain Tomorrow",
\* "at Rome 2026-11-09 tonight", "todays", "TONIGHT"
ExtractQueries ==
    {Asked(<<"i","n"," ","P","a","r","i","s">>,
           <<"P","a","r","i","s">>, <<>>, "none"),
     Asked(<<"n","e","a","r"," ","N","e","w"," ","Y","o","r","k"," ","t","o","d","a","y">>,
           <<"N","e","w"," ","Y","o","r","k">>, <<>>, "today"),
     Asked(<<"t","o","m","o","r","r","o","w">>,
           <<>>, <<>>, "tomorrow"),
     Asked(<<"h","e","l","l","o">>,
           <<>>, <<>>, "none"),
     Asked(<<"r","a","i","n"," ","T","o","m","o","r","r","o","w">>,
           <<>>, <<>>, "tomorrow"),
     Asked(<<"a","t"," ","R","o","m","e"," ","2","0","2","6","-","1","1","-","0","9"," ","t","o","n","i","g","h","t">>,
           <<"R","o","m","e">>, <<"2","0","2","6","-","1","1","-","0","9">>, "tonight"),
     Asked(<<"t","o","d","a","y","s">>,
           <<>>, <<>>, "none"),
     Asked(<<"T","O","N","I","G","H","T">>,
           <<>>, <<>>, "tonight")}

\* the extractor has nothing to do with the scanner, which is left unconfigured
InitExtract ==
    /\ MainInit
    /\ ~security_enabled
    /\ ScannerIdle
    /\ ClassifierIdle
    /\ ChatIdle
    /\ env = "full"

\* datetime.now(sgt_tz) has moved on to the next day
NextDay ==
    /\ now_day < MaxDay
    /\ now_day' = now_day + 1
    /\ UNCHANGED <<security_agent, security_enabled, chat_agent, pc, user_query, locals,
                   result, queries, history_before, answered, flagged, health, classifier_vars,
                   scanner_vars, chat_vars, env, request_vars>>

\* location, date = chat_agent.extract_entities(query)
ExtractCall ==
    /\ Len(ex_calls) < MaxExtracts
    /\ \E asked \in ExtractQueries :
          LET e == extract_entities(chat_agent, asked.text, now_day)
          IN  /\ chat_agent' = e.ca
              /\ ex_calls' = Append(ex_calls,
                                    [asked |-> asked, today |-> now_day,
                                     before |-> [location |-> chat_agent.last_active_location,
                                                 date |-> chat_agent.last_active_date],
                                     location |-> e.location, date |-> e.date])
    /\ UNCHANGED <<security_agent, security_enabled, now_day, pc, user_query, locals,
                   result, queries, history_before, answered, flagged, health, classifier_vars,
                   scanner_vars, chat_vars, env, id_clock, id_issued>>

NextExtract == ExtractCall \/ NextDay

SpecExtract == InitExtract /\ [][NextExtract]_vars

(***************************************************************************)
(* The request ids on their own: the requests built one after the other,   *)
(* by whichever caller, while the clock goes on                            *)
(***************************************************************************)
\* how far the clock goes, in milliseconds, and how many requests are built
MaxClock == 2

MaxRequests == 3

\* the agent names of the scans of handle_query and of the image handler, and the
\* default one, which health_check leaves in place
AgentNames == {"controller_input", "controller_weather_query", "image_agent", "controller"}

InitIds == MainInit /\ ScannerIdle /\ ClassifierIdle /\ ChatIdle /\ env = "full"

\* a millisecond goes by
Tick ==
    /\ id_clock < MaxClock
    /\ id_clock' = id_clock + 1
    /\ UNCHANGED <<security_agent, security_enabled, chat_agent, now_day, pc, user_query, locals,
                   result, queries, history_before, answered, flagged, health, classifier_vars,
                   scanner_vars, chat_vars, env, ex_calls, id_issued>>

\* self._build_airs_request(prompt, response, ai_model, app_user, agent_name), called by
\* a scan that is about to send its request
BuildRequest ==
    /\ Len(id_issued) < MaxRequests
    /\ \E agent_name \in AgentNames :
          id_issued' = Append(id_issued, tr_id_of(id_clock, agent_name))
    /\ UNCHANGED <<security_agent, security_enabled, chat_agent, now_day, pc, user_query, locals,
                   result, queries, history_before, answered, flagged, health, classifier_vars,
                   scanner_vars, chat_vars, env, ex_calls, id_clock>>

NextIds == Tick \/ BuildRequest

SpecIds == InitIds /\ [][NextIds]_vars

(***************************************************************************)
(* Properties of handle_query's security steps                             *)
(***************************************************************************)
\* the canned safe response: it opens with get_safe_response's base message
IsSafeResponse(text) == Len(text) >= 1 /\ text[1] = base_message

\* scanning is enabled with block_on_threat on and the pre-scan reported a threat
PreScanThreat ==
    /\ security_enabled
    /\ security_agent.block_on_threat
    /\ Truthy(prompt_scan.threat_detected)

\* C1, as the specification states it: with scanning enabled and block_on_threat
\* on, once the pre-scan of the raw query has reported a threat the call has
\* returned intent SECURITY_BLOCKED with the canned safe response, no handler was
\* invoked and no history entry was appended.
C1_PreScanThreatShortCircuits ==
    PreScanThreat =>
        /\ pc = "returned"
        /\ result.intent = "SECURITY_BLOCKED"
        /\ IsSafeResponse(result.response)
        /\ calls = <<>>
        /\ chat_agent.conversation_history = <<>>

FailedActions == {"ERROR", "TIMEOUT", "PARSE_ERROR"}

\* the scans of the current call that sent a request to the remote service
Attempts == {i \in 1..Len(scans) : scans[i].remote /= "none"}

EveryAttemptFailed ==
    /\ Attempts /= {}
    /\ \A i \in Attempts : scans[i].action_taken \in FailedActions

\* C2: while every scan attempt of a query has failed (timeout, transport error,
\* non-2xx status, parse failure), the call neither returns SECURITY_BLOCKED or
\* SECURITY_FILTERED nor replaces the response by the canned safe response,
\* whatever block_on_threat is.
C2_FailedScansNeverBlock ==
    EveryAttemptFailed =>
        /\ result.intent \notin {"SECURITY_BLOCKED", "SECURITY_FILTERED"}
        /\ intent /= "SECURITY_FILTERED"
        /\ ~IsSafeResponse(response)
        /\ ~IsSafeResponse(result.response)
        /\ pc /= "raised"

\* a call with block_on_threat on returned a handler's answer although both its
\* pre-scan and its post-scan failed
C2_Witness ==
    /\ pc = "returned"
    /\ security_agent.block_on_threat
    /\ EveryAttemptFailed
    /\ Cardinality(Attempts) >= 2
    /\ {scans[i].action_taken : i \in Attempts} = {"TIMEOUT", "ERROR"}
    /\ result.intent = "WEATHER_QUERY"
    /\ result.response = response

(***************************************************************************)
(* Properties of scan_interaction                                          *)
(***************************************************************************)
\* decoded bodies _parse_airs_response cannot interpret
MalformedPayloads == {Payloads.not_object, Payloads.null_details, Payloads.threat_null_action}

\* the last scan_interaction call sent a request
Attempted ==
    /\ sc_call.remote.kind /= "<none>"
    /\ sc_result.action_taken \notin {"<unset>", "SKIP_DISABLED", "SKIP_CONFIG"}

UndecodableBody == sc_call.remote.kind = "bad_json"

UninterpretablePayload == sc_call.remote.kind = "json" /\ sc_call.remote.body \in MalformedPayloads

TransportFailure == sc_call.remote.kind \in {"timeout", "http", "connection"}

FailOpenResult ==
    /\ sc_result.is_safe
    /\ sc_result.threat_detected = PyFalse
    /\ sc_result.action_taken \in FailedActions
    /\ sc_result.action_taken = "TIMEOUT" <=> sc_call.remote.kind = "timeout"

\* C3, as the specification states it: every failed scan (transport error, timeout,
\* non-2xx status, parse failure) returns is_safe = true, threat_detected = false
\* and an action in {ERROR, TIMEOUT, PARSE_ERROR}, TIMEOUT exactly for a timeout
\* and PARSE_ERROR exactly for a parse failure, a body that is no JSON included.
C3_ParseFailureIsParseError ==
    (Attempted /\ (TransportFailure \/ UndecodableBody \/ UninterpretablePayload)) =>
        /\ FailOpenResult
        /\ sc_result.action_taken = "PARSE_ERROR" <=> (UndecodableBody \/ UninterpretablePayload)

\* C3, amended: every failed scan returns is_safe = true, threat_detected = false
\* and an action in {ERROR, TIMEOUT, PARSE_ERROR}; TIMEOUT exactly for a timeout,
\* PARSE_ERROR exactly when the decoded payload cannot be interpreted, and ERROR for
\* everything else, a 2xx body that is no JSON included.
C3_FailedScanFailsOpen ==
    (Attempted /\ (TransportFailure \/ UndecodableBody \/ UninterpretablePayload)) =>
        /\ FailOpenResult
        /\ sc_result.action_taken = "PARSE_ERROR" <=> UninterpretablePayload
        /\ UndecodableBody => sc_result.action_taken = "ERROR"

\* a scan whose 2xx answer was no JSON came back as ERROR
C3_Witness ==
    /\ Attempted
    /\ UndecodableBody
    /\ sc_result.action_taken = "ERROR"
    /\ sc_result.is_safe

(***************************************************************************)
(* Properties of handle_query's error handling                             *)
(***************************************************************************)
\* C4, as the specification states it: handle_query never throws; whatever the
\* query and whichever collaborator fails, no exception propagates to the caller.
C4_NeverThrows == pc /= "raised"

\* C5, as the specification states it: an exception raised in context extraction,
\* classification, dispatch, post-scan or history append ends the call with the
\* payload {response: "Error processing request: <message>", intent: "ERROR"}.
C5_UncaughtBecomesError ==
    exception.step \in {"extract", "classify", "dispatch", "post_scan", "record"} =>
        /\ pc = "error"
        /\ result = ErrorResult(exception.message)

\* scanning is enabled with block_on_threat on and the post-scan reported a threat
PostScanThreat ==
    /\ security_enabled
    /\ security_agent.block_on_threat
    /\ response_scan.action_taken /= "<unset>"
    /\ Truthy(response_scan.threat_detected)

LastEntry(history) == history[Len(history)]

\* C6, as the specification states it: with scanning enabled and block_on_threat
\* on, once the post-scan has reported a threat the response is the canned safe
\* response followed by the filtered note, the intent is SECURITY_FILTERED, and the
\* history entry appended for the query holds that filtered response.
C6_PostScanThreatFilters ==
    PostScanThreat =>
        /\ pc \in {"post_scanned", "recorded", "returned"}
        /\ intent = "SECURITY_FILTERED"
        /\ IsSafeResponse(response)
        /\ response[Len(response)] = filtered_note
        /\ pc \in {"recorded", "returned"} =>
              /\ chat_agent.conversation_history /= <<>>
              /\ LastEntry(chat_agent.conversation_history).response = response
        /\ pc = "returned" =>
              /\ result.intent = "SECURITY_FILTERED"
              /\ result.response = response

(***************************************************************************)
(* Properties of routing and classification                                *)
(***************************************************************************)
\* the retrieval handler answered with the "no information" phrase
RetrievedNoInformation ==
    /\ retrieved.kind = "text"
    /\ AnyContained(lower(Chars(retrieved.answer)), RagNoAnswerSignals)

\* C7, as the specification states it: when a query classified RAG_QUERY gets a
\* retrieval answer holding a "no information" phrase, the answer returned is the
\* fallback handler's and the intent returned is the fallback's label, UNKNOWN,
\* not RAG_QUERY.
C7_FallbackRelabels ==
    (pc = "returned" /\ RetrievedNoInformation /\ intent /= "SECURITY_FILTERED") =>
        /\ result.response[Len(result.response)] = reminder
        /\ result.intent /= "RAG_QUERY"
        /\ result.intent = "UNKNOWN"

\* the priority order the specification lists
PromptOrder ==
    <<"EVENT_QUERY_DB", "RECOMMENDATION", "TIME_QUERY", "WEATHER_QUERY",
      "IMAGE_GENERATION", "RAG_QUERY", "UNKNOWN">>

\* the priority order of the loop in _classify_intent
LoopOrder ==
    <<"RECOMMENDATION", "EVENT_QUERY_DB", "RAG_QUERY", "IMAGE_GENERATION",
      "WEATHER_QUERY", "TIME_QUERY", "UNKNOWN">>

\* the first label of `order` that occurs in `text`, UNKNOWN when none does
RECURSIVE FirstLabel(_, _, _)
FirstLabel(order, text, i) ==
    IF i > Len(order) THEN "UNKNOWN"
    ELSE IF Contains(text, LabelText[order[i]]) THEN order[i]
    ELSE FirstLabel(order, text, i + 1)

\* the classifier alone has classified a completion that is text
ClassifiedText == cl_label /= "<pending>" /\ cl_label /= "<none>" /\ cl_completion.kind = "text"

\* C8, as the specification states it: the label returned is the first one, in the
\* order EVENT_QUERY_DB, RECOMMENDATION, TIME_QUERY, WEATHER_QUERY,
\* IMAGE_GENERATION, RAG_QUERY, UNKNOWN, that occurs in the upper-cased completion.
C8_FirstInPromptOrder ==
    ClassifiedText => cl_label = FirstLabel(PromptOrder, upper(Chars(cl_completion.content)), 1)

\* C8, amended: the label returned is the first one, in the order RECOMMENDATION,
\* EVENT_QUERY_DB, RAG_QUERY, IMAGE_GENERATION, WEATHER_QUERY, TIME_QUERY, UNKNOWN,
\* that occurs in the upper-cased completion; for a text holding two or more labels
\* it is the one earliest in that order.
C8_FirstInLoopOrder ==
    ClassifiedText => cl_label = FirstLabel(LoopOrder, upper(Chars(cl_completion.content)), 1)

\* a completion naming EVENT_QUERY_DB before RECOMMENDATION was classified RECOMMENDATION
C8_Witness ==
    /\ ClassifiedText
    /\ cl_completion.content = <<Piece.event, Piece.recommendation>>
    /\ cl_label = "RECOMMENDATION"

ClosedLabels ==
    {"EVENT_QUERY_DB", "RECOMMENDATION", "TIME_QUERY", "WEATHER_QUERY", "IMAGE_GENERATION",
     "RAG_QUERY", "UNKNOWN"}

\* C9: the label the classifier hands to the router is one of the seven; the
\* completion "EVENT_QUERY_DB please" gives EVENT_QUERY_DB, "BANANA" gives UNKNOWN,
\* a failed completion call gives UNKNOWN, and a query labelled UNKNOWN is answered
\* by the fallback handler.
C9_ClosedLabelSet ==
    /\ pc = "classified" =>
          /\ intent \in ClosedLabels
          /\ completion = Completion("text", <<Piece.event, Piece.please>>) => intent = "EVENT_QUERY_DB"
          /\ completion = Completion("text", <<Piece.banana>>) => intent = "UNKNOWN"
          /\ completion.kind \in {"raise", "none"} => intent = "UNKNOWN"
    /\ (pc = "dispatched" /\ completion.kind \in {"raise", "none"}) =>
          /\ intent = "UNKNOWN"
          /\ response[Len(response)] = reminder
          /\ \A i \in 1..Len(calls) : calls[i] \in {"llm.classify", "llm.unknown"}

\* a query whose classification call failed was answered by the fallback handler's LLM reply
C9_Witness ==
    /\ pc = "dispatched"
    /\ completion.kind = "raise"
    /\ intent = "UNKNOWN"
    /\ calls = <<"llm.classify", "llm.unknown">>
    /\ Len(response) > 1

(***************************************************************************)
(* Properties of the scanner's activation status                           *)
(***************************************************************************)
FailureStates == {"timeout", "error", "pending_activation", "auth_failed"}

\* the last scan got a 2xx answer that _parse_airs_response interpreted
HealthyAnswer ==
    /\ sc_call.remote.kind = "json"
    /\ sc_result.action_taken \in {"ALLOW", "LOGGED", "BLOCKED"}

\* C10, as the specification states it: a scan that times out returns TIMEOUT with
\* is_safe = true, and a scan that gets a healthy remote answer while the status
\* is a failure state moves activation_status to active.
C10_StatusRecovers ==
    /\ (Attempted /\ sc_call.remote.kind = "timeout") =>
          /\ sc_result.action_taken = "TIMEOUT"
          /\ sc_result.is_safe
          /\ security_agent.activation_status = "timeout"
    /\ (HealthyAnswer /\ sc_before.activation_status \in FailureStates) =>
          security_agent.activation_status = "active"

\* the failure state the specification names for the last scan's failure
StatedFailureState ==
    CASE sc_call.remote.kind = "http" /\ sc_call.remote.code = 403 -> "pending_activation"
      [] sc_call.remote.kind = "http" /\ sc_call.remote.code = 401 -> "auth_failed"
      [] sc_call.remote.kind = "timeout" -> "timeout"
      [] OTHER -> "error"

\* C11, as the specification states it: a scan that fails leaves activation_status
\* at the failure state of its failure: pending_activation for 403, auth_failed for
\* 401, timeout for a timeout, error for any other transport error, non-2xx status
\* or parse failure; never pending, never active.
C11_FailureSetsFailureState ==
    (Attempted /\ (TransportFailure \/ UndecodableBody \/ UninterpretablePayload)) =>
        /\ security_agent.activation_status = StatedFailureState
        /\ security_agent.activation_status \notin {"pending", "active"}

(***************************************************************************)
(* Properties of the scanner's statistics                                  *)
(***************************************************************************)
\* scan_interaction was called
CallMade == sc_call.remote.kind /= "<none>"

\* the sides the last call scanned
ScannedPrompt == sc_before.enabled /\ sc_before.enable_prompt_scan /\ IsTruthyText(sc_call.prompt)

ScannedResponse == sc_before.enabled /\ sc_before.enable_response_scan /\ IsTruthyText(sc_call.response)

One(b) == IF b THEN 1 ELSE 0

\* the last call counted as one scan of the sides it scanned, with its verdict
CountedOnce ==
    /\ security_agent.stats.total_scans = sc_before.stats.total_scans + 1
    /\ security_agent.stats.prompts_scanned = sc_before.stats.prompts_scanned + One(ScannedPrompt)
    /\ security_agent.stats.responses_scanned = sc_before.stats.responses_scanned + One(ScannedResponse)
    /\ security_agent.stats.threats_detected =
          sc_before.stats.threats_detected + One(sc_result.threat_detected = PyTrue)
    /\ security_agent.stats.blocked_requests =
          sc_before.stats.blocked_requests + One(sc_result.action_taken = "BLOCKED")

\* C12, as the specification states it: every scan_interaction call, whatever its
\* outcome, adds one to total_scans, one to prompts_scanned / responses_scanned for
\* each side scanned, one to threats_detected exactly when a threat was detected
\* and one to blocked_requests exactly when action_taken is BLOCKED.
C12_EveryCallCounted == CallMade => CountedOnce

\* the remote service answered the last call with a 2xx JSON body
Answered == Attempted /\ sc_call.remote.kind = "json"

\* C12, amended: a scan_interaction call that the remote service answers with a
\* 2xx JSON body (one that ends in PARSE_ERROR included) adds one to total_scans,
\* one to prompts_scanned / responses_scanned for each side scanned, one to
\* threats_detected exactly when a threat was detected and one to blocked_requests
\* exactly when action_taken is BLOCKED; a call that is skipped or that fails
\* (timeout, transport error, non-2xx status, body that is no JSON) leaves every
\* counter as it was.
C12_AnsweredCallCounted ==
    CallMade =>
        IF Answered THEN CountedOnce ELSE security_agent.stats = sc_before.stats

\* a second answered scan, of both sides, was blocked and counted on top of the first
C12_Witness ==
    /\ Answered
    /\ ScannedPrompt /\ ScannedResponse
    /\ sc_result.action_taken = "BLOCKED"
    /\ security_agent.stats.total_scans = 2
    /\ security_agent.stats.blocked_requests = sc_before.stats.blocked_requests + 1
    /\ security_agent.stats.responses_scanned >= 1

(***************************************************************************)
(* Properties of the conversation history                                  *)
(***************************************************************************)
\* the last n entries of s, in order
LastEntries(s, n) == IF Len(s) <= n THEN s ELSE SubSeq(s, Len(s) - n + 1, Len(s))

\* C13: after any sequence of add_to_history calls the history is no longer than
\* max_history and holds the most recent max_history insertions in insertion
\* order: an insertion made at capacity evicts exactly the earliest entry.
C13_HistoryBoundedFifo ==
    /\ Len(chat_agent.conversation_history) <= chat_agent.max_history
    /\ chat_agent.conversation_history = LastEntries(ch_inserted, chat_agent.max_history)

\* two insertions past capacity: the two earliest entries are gone, the latest are kept
C13_Witness ==
    /\ Len(ch_inserted) = chat_agent.max_history + 2
    /\ Len(chat_agent.conversation_history) = chat_agent.max_history
    /\ chat_agent.conversation_history[1] = ch_inserted[3]
    /\ chat_agent.conversation_history[1] /= ch_inserted[1]

(***************************************************************************)
(* C14: the history after a sequence of handle_query calls                 *)
(***************************************************************************)
\* the call has come back to the caller, and along the normal path
NormalReturn == pc = "returned" /\ result.intent /= "SECURITY_BLOCKED"

\* one entry (query, returned response) for each call so far that returned along the
\* normal path, in the order of the calls
Completed ==
    IF NormalReturn
    THEN Append(answered, [query |-> user_query, response |-> result.response,
                           timestamp |-> now_day])
    ELSE answered

\* C14 as stated: between calls the history is one entry for each query that
\* completed the normal path, in conversation order, and nothing else
C14_HistoryIsEveryAnswer ==
    pc \in Terminal => chat_agent.conversation_history = Completed

\* C14: between calls the history is the last max_history of the entries (query,
\* returned response) of the queries that completed the normal path, in conversation
\* order; a query that came back SECURITY_BLOCKED or ERROR, or that raised, left no
\* entry, and no query left more than one
C14_HistoryIsLatestAnswers ==
    pc \in Terminal =>
        chat_agent.conversation_history = LastEntries(Completed, chat_agent.max_history)

\* three calls were made and came back along the normal path, which is more than the
\* history holds
C14_Witness ==
    /\ pc \in Terminal
    /\ queries = 3
    /\ Len(Completed) = 3
    /\ Len(Completed) > chat_agent.max_history

(***************************************************************************)
(* C15: the order of the steps of one handle_query call                    *)
(***************************************************************************)
\* which step may follow which
StepOrder ==
    {<<"received", "pre_scanned">>, <<"pre_scanned", "extracted">>,
     <<"extracted", "classified">>, <<"classified", "dispatched">>,
     <<"dispatched", "post_scanned">>, <<"post_scanned", "recorded">>,
     <<"recorded", "returned">>,
     \* the pre-scan blocks the query
     <<"received", "returned">>,
     \* the except branch of handle_query
     <<"classified", "error">>, <<"dispatched", "error">>,
     \* an exception leaves handle_query
     <<"received", "raised">>, <<"pre_scanned", "raised">>}

\* the pre-scan of the current call has come back
PreScanDone ==
    /\ scans /= <<>>
    /\ scans[1].agent_name = "controller_input"
    /\ prompt_scan.action_taken /= "<unset>"

\* the post-scan of the current call has come back, and it was the last scan
PostScanDone ==
    /\ scans /= <<>>
    /\ scans[Len(scans)].agent_name = "controller_intent"
    /\ response_scan.action_taken /= "<unset>"

\* the classifier or a handler has been at work: a collaborator was called, a handler
\* scanned, or a response was produced
Dispatching ==
    \/ calls /= <<>>
    \/ \E i \in 1..Len(scans) : scans[i].agent_name = "image_agent"
    \/ response /= <<>>

\* where a call with scanning enabled stands, told from what it has done so far
OrderedSoFar ==
    security_enabled =>
        /\ Dispatching => PreScanDone
        /\ chat_agent.conversation_history /= history_before => PostScanDone
        /\ pc \in {"recorded", "returned"} /\ result.intent /= "SECURITY_BLOCKED" => PostScanDone
        /\ pc = "returned" /\ result.intent /= "SECURITY_BLOCKED" =>
               /\ LastEntry(chat_agent.conversation_history).response = result.response
               /\ calls /= <<>> /\ calls[1] = "llm.classify"
        /\ result.intent = "ERROR" =>
               pc = "error" /\ chat_agent.conversation_history = history_before

\* C15: within one call with scanning enabled the steps follow one another in the
\* order pre-scan, extraction, classification, dispatch, post-scan, history append,
\* return; nothing is dispatched before the pre-scan has come back, nothing is
\* recorded or returned before the post-scan has come back, and after ERROR the call
\* does nothing more
C15_StepsInOrder ==
    [][/\ pc' /= pc /\ pc' /= "received" => <<pc, pc'>> \in StepOrder
       /\ pc = "error" => pc' \in {"error", "received"}
       /\ pc = "error" /\ pc' = "error" =>
              result' = result /\ chat_agent' = chat_agent /\ scans' = scans /\ calls' = calls
       /\ OrderedSoFar']_vars

\* a call with scanning enabled has gone through every step and returned
C15_Witness ==
    /\ security_enabled
    /\ pc = "returned"
    /\ result.intent \notin {"SECURITY_BLOCKED", "ERROR"}
    /\ PreScanDone /\ PostScanDone
    /\ Len(calls) > 1
    /\ chat_agent.conversation_history /= history_before

\* a call with scanning enabled has ended in ERROR
C15_WitnessError ==
    security_enabled /\ pc = "error" /\ result.intent = "ERROR" /\ PreScanDone

(***************************************************************************)
(* C16: the log-only policy                                                *)
(***************************************************************************)
\* the scanner is on and only logs the threats it finds
LogOnly == security_enabled /\ ~security_agent.block_on_threat

\* the scans the current call has got back: the pre-scan, the post-scan and the log of
\* every scan made, the handlers' scans included
ActionsTaken ==
    {prompt_scan.action_taken, response_scan.action_taken}
        \cup {scans[i].action_taken : i \in 1..Len(scans)}

\* the scans that found a threat are reported LOGGED
ThreatsLogged ==
    /\ Truthy(prompt_scan.threat_detected) => prompt_scan.action_taken = "LOGGED"
    /\ Truthy(response_scan.threat_detected) => response_scan.action_taken = "LOGGED"
    /\ \A i \in 1..Len(scans) : scans[i].threat_detected => scans[i].action_taken = "LOGGED"

\* C16: under the log-only policy, whatever the queries and the scan outcomes, every
\* detected threat is reported LOGGED and none BLOCKED, blocked_requests stays 0, and
\* no call returns intent SECURITY_BLOCKED or SECURITY_FILTERED
C16_LogOnlyNeverBlocks ==
    LogOnly =>
        /\ ThreatsLogged
        /\ "BLOCKED" \notin ActionsTaken
        /\ security_agent.stats.blocked_requests = 0
        /\ result.intent \notin {"SECURITY_BLOCKED", "SECURITY_FILTERED"}
        /\ intent \notin {"SECURITY_BLOCKED", "SECURITY_FILTERED"}

\* the third call of a log-only session has returned; its pre-scan and its post-scan
\* found a threat, and threats were found in the earlier calls too
C16_Witness ==
    /\ LogOnly
    /\ queries = 3
    /\ pc = "returned"
    /\ Truthy(prompt_scan.threat_detected)
    /\ Truthy(response_scan.threat_detected)
    /\ security_agent.stats.threats_detected > 3

(***************************************************************************)
(* C17: a threat the pre-scan found and did not block                      *)
(***************************************************************************)
\* the pre-scan found a threat and the policy is to log it
PreScanThreatLogged ==
    /\ security_enabled
    /\ ~security_agent.block_on_threat
    /\ Truthy(prompt_scan.threat_detected)

\* the payload reports the pre-scan's threat and its type
ReportsPromptThreat ==
    /\ "security" \in result.keys
    /\ result.security.prompt.threat_detected = PyTrue
    /\ result.security.prompt.threat_type = prompt_scan.threat_type

\* C17, as the specification states it: when the pre-scan finds a threat and the
\* policy does not block, the call goes on through classification and dispatch, and
\* the payload it returns in the end reports the prompt-side scan with threat_detected
\* true and the threat's type
C17_LoggedThreatReported ==
    PreScanThreatLogged =>
        /\ pc \notin {"received", "raised"}
        /\ pc \in {"returned", "error"} =>
               /\ calls /= <<>> /\ calls[1] = "llm.classify"
               /\ ReportsPromptThreat

\* the same for the calls that return along the normal path
C17_ReportedOnNormalReturn ==
    PreScanThreatLogged /\ pc = "returned" =>
        /\ calls /= <<>> /\ calls[1] = "llm.classify"
        /\ ReportsPromptThreat

(***************************************************************************)
(* C18: a handler's collaborator raises                                    *)
(***************************************************************************)
\* what the time zone library raises
TimeZoneFailures ==
    {<<"No module named 'zoneinfo'">>, <<"No time zone found with key <target_tz>">>}

\* the error texts the handlers make of a collaborator's exception
HandlerErrorTexts == {"Error: <e>", "Error fetching weather for ", "Error processing event query: <e>"}

\* a collaborator of the dispatched handler raised: the handler turned the exception
\* into its error text, or the exception left the handler
CollaboratorRaised ==
    \/ exception.step = "dispatch" /\ exception.message \in TimeZoneFailures
    \/ /\ pc \in {"dispatched", "post_scanned", "recorded", "returned"}
       /\ response /= <<>>
       /\ response[1] \in HandlerErrorTexts

\* C18, as the specification states it: when a collaborator of the dispatched handler
\* raises, the call does not end in ERROR, and what it returns carries the classified
\* label (or SECURITY_FILTERED, when the post-scan filtered the error text)
C18_HandlerFailureContained ==
    CollaboratorRaised =>
        /\ pc /= "error"
        /\ result.intent /= "ERROR"
        /\ intent \in {classify_intent(completion), "SECURITY_FILTERED"}
        /\ pc = "returned" => result.intent = intent

\* a weather, event, recommendation or image failure was turned into an error text and
\* returned under the classified label
C18_ContainedSomewhere ==
    /\ pc = "returned"
    /\ response /= <<>> /\ response[1] \in HandlerErrorTexts
    /\ result.intent = classify_intent(completion)

(***************************************************************************)
(* C19, C20: what the parser makes of a payload                            *)
(***************************************************************************)
\* the parser has been applied to the payload
Parsed == sc_count = 1

\* the action of the payload: the one in details when there is one, else the top-level
\* one, "allow" when the payload names none
PayloadAction(p) ==
    IF Truthy(Get(p.details.action)) THEN p.details.action ELSE GetOr(p.action, "allow")

AnyFlag(p) ==
    LET flags == MapItems(p.details.prompt_detected) \o MapItems(p.details.response_detected)
    IN  \E i \in 1..Len(flags) : flags[i].val

\* the signals of the specification, the words compared without regard to case
SignalPresent(p) ==
    \/ p.threats.kind = "list" /\ Len(p.threats.items) > 0
    \/ LowerWord(GetOr(p.status, "unknown")) = "threat"
    \/ AnyFlag(p)
    \/ Truthy(Get(p.details.category)) /\ LowerWord(p.details.category) /= "benign"
    \/ LowerWord(PayloadAction(p)) = "block"

\* the signals as the parser reads them: the status compared letter for letter
SignalRead(p) ==
    \/ p.threats.kind = "list" /\ Len(p.threats.items) > 0
    \/ GetOr(p.status, "unknown") = "threat"
    \/ AnyFlag(p)
    \/ Truthy(Get(p.details.category)) /\ LowerWord(p.details.category) /= "benign"
    \/ LowerWord(PayloadAction(p)) = "block"

\* C19, as the specification states it: for every payload threat_detected is true
\* exactly when one of the signals is present, and a payload without any signal gives
\* threat_detected false and action_taken ALLOW
C19_ThreatIffSignal ==
    Parsed =>
        /\ Truthy(sc_result.threat_detected) <=> SignalPresent(sc_call.remote.body)
        /\ ~SignalPresent(sc_call.remote.body) => sc_result.action_taken = "ALLOW"

\* what does hold: for the payloads the parser can interpret, threat_detected is true
\* exactly when one of the signals is present as the parser reads them
C19_InterpretedPayloads ==
    Parsed /\ sc_result.action_taken /= "PARSE_ERROR" =>
        /\ Truthy(sc_result.threat_detected) <=> SignalRead(sc_call.remote.body)
        /\ ~SignalRead(sc_call.remote.body) => sc_result.action_taken = "ALLOW"

\* C20: for every payload the parser can interpret, action_taken is BLOCKED exactly
\* when a threat was detected and block_on_threat is on, LOGGED exactly when a threat
\* was detected and block_on_threat is off, and ALLOW exactly when no threat was
\* detected
C20_ActionTakenDerivation ==
    Parsed /\ sc_result.action_taken /= "PARSE_ERROR" =>
        LET threat == Truthy(sc_result.threat_detected)
            block == security_agent.block_on_threat
        IN  /\ threat = SignalRead(sc_call.remote.body)
            /\ sc_result.action_taken \in {"BLOCKED", "LOGGED", "ALLOW"}
            /\ sc_result.action_taken = "BLOCKED" <=> threat /\ block
            /\ sc_result.action_taken = "LOGGED" <=> threat /\ ~block
            /\ sc_result.action_taken = "ALLOW" <=> ~threat

\* a payload with a signal was parsed under the blocking policy
C20_Witness ==
    /\ Parsed
    /\ security_agent.block_on_threat
    /\ SignalRead(sc_call.remote.body)
    /\ sc_result.action_taken = "BLOCKED"

\* a payload without any signal was parsed under the blocking policy
C20_WitnessAllow ==
    /\ Parsed
    /\ security_agent.block_on_threat
    /\ ~SignalRead(sc_call.remote.body)
    /\ sc_result.action_taken = "ALLOW"

(***************************************************************************)
(* C21: the correlation ids                                                *)
(***************************************************************************)
\* C21, as the specification states it: no two requests carry the same tr_id
C21_RequestIdsUnique ==
    \A i, j \in 1..Len(id_issued) : i /= j => id_issued[i] /= id_issued[j]

(***************************************************************************)
(* C22: the scan metadata of the returned payload                          *)
(***************************************************************************)
ScanMetadataKeys == {"security_scanned", "scan_time_ms", "security"}

\* C22: a payload returned on the normal path carries the scan metadata (the
\* prompt-side result, the response-side result and the sum of the two scan times)
\* exactly when scanning is enabled, and the payload of a query the pre-scan blocked
\* has no scan_time_ms key
C22_ScanMetadataIffEnabled ==
    pc = "returned" =>
        IF result.intent = "SECURITY_BLOCKED"
        THEN result.keys \cap ScanMetadataKeys = {}
        ELSE /\ security_enabled => /\ result.keys = {"response", "intent"} \cup ScanMetadataKeys
                                     /\ result.security.prompt = Side(prompt_scan)
                                     /\ result.security.response = Side(response_scan)
                                     /\ result.scan_time_ms =
                                            OrZero(prompt_scan.scan_time_ms)
                                                + OrZero(response_scan.scan_time_ms)
             /\ ~security_enabled => result.keys = {"response", "intent"}

\* a query was blocked by the pre-scan and its payload returned
C22_Witness ==
    /\ pc = "returned"
    /\ result.intent = "SECURITY_BLOCKED"
    /\ "scan_time_ms" \notin result.keys

\* payloads were returned on the normal path with scanning on and with scanning off
C22_WitnessEnabled ==
    pc = "returned" /\ security_enabled /\ "security" \in result.keys /\ result.scan_time_ms > 0

C22_WitnessDisabled ==
    pc = "returned" /\ ~security_enabled /\ result.keys = {"response", "intent"}

(***************************************************************************)
(* C23, C24, C25: what the extractor returns and remembers                 *)
(***************************************************************************)
\* the last extract_entities call
LastCall == ex_calls[Len(ex_calls)]

\* the places named by the queries asked so far, in the order they were asked
PlacesNamed == SelectSeq([k \in 1..Len(ex_calls) |-> ex_calls[k].asked.place], LAMBDA pl : pl /= <<>>)

\* what the location pattern finds in the queries asked so far
PlacesMatched ==
    SelectSeq([k \in 1..Len(ex_calls) |-> location_match(ex_calls[k].asked.text)],
              LAMBDA pl : pl /= <<>>)

\* C23, as the specification states it: a query without a capitalized phrase after a
\* locative preposition returns the remembered location and leaves it as it was, a
\* query with one returns the phrase and remembers it; so the location returned is the
\* phrase of the latest query that had one, the seed default when none had
C23_LocationFollowsPhrase ==
    ex_calls /= <<>> =>
        /\ LastCall.asked.place = <<>> =>
               /\ LastCall.location = LastCall.before.location
               /\ chat_agent.last_active_location = LastCall.before.location
        /\ LastCall.asked.place /= <<>> =>
               /\ LastCall.location = LastCall.asked.place
               /\ chat_agent.last_active_location = LastCall.asked.place
        /\ LastCall.location = IF PlacesNamed = <<>> THEN DefaultLocation
                               ELSE PlacesNamed[Len(PlacesNamed)]

\* what does hold: the same with the match of the location pattern in the place of the
\* phrase a reader finds
C23_LocationFollowsMatch ==
    ex_calls /= <<>> =>
        LET found == location_match(LastCall.asked.text)
        IN  /\ found = <<>> =>
                   /\ LastCall.location = LastCall.before.location
                   /\ chat_agent.last_active_location = LastCall.before.location
            /\ found /= <<>> =>
                   /\ LastCall.location = found
                   /\ chat_agent.last_active_location = found
            /\ LastCall.location = IF PlacesMatched = <<>> THEN DefaultLocation
                                   ELSE PlacesMatched[Len(PlacesMatched)]

\* the last query named no date: no YYYY-MM-DD token and no day keyword
NoDateAsked == LastCall.asked.token = <<>> /\ LastCall.asked.keyword = "none"

\* C24: the remembered date is overwritten only by a date the query names: once a date
\* is remembered, a query that names none returns the remembered date and leaves it as
\* it was, and the reference day is returned, and remembered, only when nothing was
\* remembered
C24_DateKeptUnlessNamed ==
    ex_calls /= <<>> =>
        /\ NoDateAsked /\ LastCall.before.date /= <<>> =>
               /\ LastCall.date = LastCall.before.date
               /\ chat_agent.last_active_date = LastCall.before.date
        /\ NoDateAsked /\ LastCall.before.date = <<>> =>
               /\ LastCall.date = DayText[LastCall.today + 1]
               /\ chat_agent.last_active_date = DayText[LastCall.today + 1]
        /\ chat_agent.last_active_date /= LastCall.before.date =>
               ~NoDateAsked \/ LastCall.before.date = <<>>

\* a date was remembered on one day, and on a later day a query that names no date got
\* the remembered date, not the day's
C24_Witness ==
    /\ ex_calls /= <<>>
    /\ NoDateAsked
    /\ LastCall.before.date /= <<>>
    /\ LastCall.before.date /= DayText[LastCall.today + 1]
    /\ LastCall.today > 0
    /\ LastCall.date = LastCall.before.date

\* C25: the date is resolved in a fixed order: the YYYY-MM-DD token of the query when
\* it has one, whatever keywords it has; else the reference day for the whole word
\* today, the day after for tomorrow, the reference day for tonight, in whatever case;
\* and only when the query has none of these the remembered date, or the reference day
\* when nothing is remembered
C25_DatePriority ==
    ex_calls /= <<>> =>
        LastCall.date =
            IF LastCall.asked.token /= <<>> THEN LastCall.asked.token
            ELSE CASE LastCall.asked.keyword = "today" -> DayText[LastCall.today + 1]
                   [] LastCall.asked.keyword = "tomorrow" -> DayText[LastCall.today + 2]
                   [] LastCall.asked.keyword = "tonight" -> DayText[LastCall.today + 1]
                   [] OTHER -> IF LastCall.before.date /= <<>> THEN LastCall.before.date
                               ELSE DayText[LastCall.today + 1]

\* a query with a token and a keyword was asked, after a date had been remembered
C25_Witness ==
    /\ ex_calls /= <<>>
    /\ LastCall.asked.token /= <<>>
    /\ LastCall.asked.keyword /= "none"
    /\ LastCall.before.date /= <<>>
    /\ LastCall.date = LastCall.asked.token

(***************************************************************************)
(* C26: the scanner's counters                                             *)
(***************************************************************************)
Counters ==
    {"total_scans", "threats_detected", "prompts_scanned", "responses_scanned", "blocked_requests"}

\* C26: none of the five counters of the scanner ever decreases, whatever is scanned
\* and whatever the remote service answers; they are zero in a scanner just built and
\* nothing sets them back
C26_CountersNeverDecrease ==
    [][/\ DOMAIN security_agent'.stats = Counters
       /\ \A c \in Counters : security_agent'.stats[c] >= security_agent.stats[c]]_vars

\* two scans were counted after a health check, a threat among them
C26_Witness ==
    /\ health.count = 1
    /\ sc_count = 2
    /\ security_agent.stats.total_scans = 3
    /\ security_agent.stats.threats_detected >= 1
    /\ security_agent.stats.threats_detected < 3

(***************************************************************************)
(* C27: no retries                                                         *)
(***************************************************************************)
\* the scans of the current call that sent a request
ScansSent == {i \in 1..Len(scans) : scans[i].remote /= "none"}

\* how often a collaborator was called during the current call
TimesCalled(name) == Cardinality({i \in 1..Len(calls) : calls[i] = name})

\* no scan and no collaborator call appears twice in the current call, and the
\* classifier was called once
NothingTwice ==
    /\ \A i, j \in 1..Len(scans) : i /= j => scans[i].agent_name /= scans[j].agent_name
    /\ \A i \in 1..Len(calls) : TimesCalled(calls[i]) = 1
    /\ pc \in {"classified", "dispatched", "post_scanned", "recorded"} =>
           TimesCalled("llm.classify") = 1

\* C27: nothing is tried again: every scan of a query sends at most one request, also
\* when the request fails or times out, no scan is made a second time, and the
\* classifier, like every collaborator of the handlers, is called at most once
C27_NoRetries ==
    [][/\ pc' /= "received" =>
             security_agent'.requests - security_agent.requests
                 = Cardinality(ScansSent') - Cardinality(ScansSent)
       /\ NothingTwice']_vars

\* a query came back after its pre-scan had timed out and its classification had failed
C27_Witness ==
    /\ pc = "returned"
    /\ scans /= <<>>
    /\ scans[1].action_taken = "TIMEOUT"
    /\ completion.kind = "raise"
    /\ security_agent.requests = Len(scans)

(***************************************************************************)
(* C28, C29: the scans that are skipped                                    *)
(***************************************************************************)
\* the last call was a scan_interaction call, not the early return of health_check
ScanMade == CallMade /\ sc_result.action_taken /= "<unset>"

\* the result says that nothing was found, and the scanner is as it was before the
\* call: no request sent, counters, activation status and last error untouched
SkippedAs(action_taken) ==
    /\ sc_result.action_taken = action_taken
    /\ sc_result.is_safe
    /\ sc_result.threat_detected = PyFalse
    /\ security_agent.requests = sc_before.requests
    /\ security_agent.stats = sc_before.stats
    /\ security_agent.activation_status = sc_before.activation_status
    /\ security_agent.last_error = sc_before.last_error

\* C28: a scan on a scanner built without a credential returns is_safe true,
\* threat_detected false and action_taken SKIP_DISABLED, sends no request and leaves
\* the counters, the activation status and the last error as they were
C28_DisabledScanSkipped ==
    ScanMade /\ sc_before.api_key = "" => SkippedAs("SKIP_DISABLED")

\* a second scan was made on a scanner without a credential
C28_Witness ==
    /\ sc_count = 2
    /\ ScanMade
    /\ sc_before.api_key = ""
    /\ sc_result.action_taken = "SKIP_DISABLED"
    /\ sc_call.prompt = <<"hello">>

\* a text was given: not None and not the empty string
TextGiven(t) == t /= NoneText /\ t /= <<>>

\* neither side of the last call was to be scanned
NeitherSide ==
    /\ ~(sc_before.enable_prompt_scan /\ TextGiven(sc_call.prompt))
    /\ ~(sc_before.enable_response_scan /\ TextGiven(sc_call.response))

\* C29: a scan on an enabled scanner for which neither side is to be scanned returns
\* action_taken SKIP_CONFIG with is_safe true and threat_detected false and sends no
\* request; with that result handle_query neither blocks nor filters
C29_NothingToScanSkipped ==
    ScanMade /\ sc_before.api_key /= "" /\ NeitherSide =>
        /\ SkippedAs("SKIP_CONFIG")
        /\ ~(Truthy(sc_result.threat_detected) /\ security_agent.block_on_threat)

\* an empty prompt was scanned with prompt scanning on and no response to scan, under
\* the blocking policy
C29_Witness ==
    /\ ScanMade
    /\ sc_before.api_key /= ""
    /\ sc_before.enable_prompt_scan
    /\ sc_before.block_on_threat
    /\ sc_call.prompt = <<>>
    /\ sc_call.response = NoneText
    /\ sc_result.action_taken = "SKIP_CONFIG"

(***************************************************************************)
(* Termination of handle_query                                             *)
(***************************************************************************)
\* the steps of a handle_query call that is under way
Step ==
    \/ PreScan
    \/ Extract
    \/ Classify
    \/ DispatchImage
    \/ DispatchRag
    \/ DispatchEvent
    \/ DispatchRecommendation
    \/ DispatchWeather
    \/ DispatchTime
    \/ DispatchUnknown
    \/ PostScan
    \/ Record
    \/ Return

\* the termination check starts from a scanner that scans both sides, under either
\* policy, or from no scanner
InitLive ==
    /\ MainInit /\ ScannerIdle /\ ClassifierIdle /\ ChatIdle /\ env = "live"
    /\ security_agent.enable_prompt_scan /\ security_agent.enable_response_scan

\* handle_query is straight-line code run by the caller's thread
\* (controller_agent.py:42-169), and every external call it makes returns, raises
\* or times out: a call under way always takes its next step.  The caller is
\* free never to call again, so Begin is not forced.
LiveSpec == InitLive /\ [][Next]_vars /\ WF_vars(Step)

\* C30: every handle_query call eventually reaches RETURNED or ERROR
C30_ReachesReturnedOrError == (pc = "received") ~> (pc \in {"returned", "error"})

\* every handle_query call ends: with a payload, with the error payload, or with an
\* exception raised to the caller
C30_CallEnds == (pc = "received") ~> (pc \in {"returned", "error", "raised"})

\* within one call the retrieval and the fallback completion are each asked at most
\* once: the retrieval fallback re-dispatches once and never comes back
C30_FallbackAtMostOnce ==
    /\ TimesCalled("rag_agent.query") <= 1
    /\ TimesCalled("llm.unknown") <= 1
    /\ TimesCalled("llm.classify") <= 1

\* a call that fell back from the retrieval to the general handler has returned
C30_WitnessFallback ==
    /\ pc = "returned"
    /\ TimesCalled("rag_agent.query") = 1
    /\ TimesCalled("llm.unknown") = 1

(***************************************************************************)
(* The conversation context on its own: extract_entities, add_to_history   *)
(* and clear_history called one after the other on one ChatAgent           *)
(***************************************************************************)
\* how many add_to_history calls are made
MaxContextAdds == 2

\* the log entry of a clear_history call
ClearMark == Asked(<<>>, <<>>, <<>>, "clear")

\* one call of add_to_history(query, response); the call's number stands for its time
ContextAdd ==
    /\ ch_count < MaxContextAdds
    /\ chat_agent' = add_to_history(chat_agent, <<"question">>, <<"answer">>, ch_count)
    /\ ch_inserted' = Append(ch_inserted,
                             [query |-> <<"question">>, response |-> <<"answer">>,
                              timestamp |-> ch_count])
    /\ ch_count' = ch_count + 1
    /\ UNCHANGED <<security_agent, security_enabled, now_day, pc, user_query, locals, result,
                   queries, history_before, answered, flagged, health, classifier_vars, scanner_vars,
                   env, request_vars>>

\* one call of clear_history(), logged with the context it found
ClearContext ==
    /\ Len(ex_calls) < MaxExtracts
    /\ chat_agent' = clear_history(chat_agent)
    /\ ch_inserted' = <<>>
    /\ ex_calls' = Append(ex_calls,
                          [asked |-> ClearMark, today |-> now_day,
                           before |-> [location |-> chat_agent.last_active_location,
                                       date |-> chat_agent.last_active_date],
                           location |-> <<>>, date |-> <<>>])
    /\ UNCHANGED <<security_agent, security_enabled, now_day, pc, user_query, locals,
                   result, queries, history_before, answered, flagged, health, classifier_vars,
                   scanner_vars, ch_count, env, id_clock, id_issued>>

NextContext == ExtractCall \/ ContextAdd \/ ClearContext

SpecContext == InitExtract /\ [][NextContext]_vars

(***************************************************************************)
(* One query under each verdict of the scan service                        *)
(***************************************************************************)
InitVerdict == MainInit /\ ScannerIdle /\ ClassifierIdle /\ ChatIdle /\ env = "verdict"

NextVerdict ==
    \/ Begin
    \/ PreScan
    \/ Extract
    \/ Classify
    \/ DispatchWeather
    \/ PostScan
    \/ Record
    \/ Return

SpecVerdict == InitVerdict /\ [][NextVerdict]_vars

(***************************************************************************)
(* C31: the shape of every returned payload                                *)
(***************************************************************************)
\* the labels a payload may carry
IntentLabels ==
    {"EVENT_QUERY_DB", "RECOMMENDATION", "TIME_QUERY", "WEATHER_QUERY", "IMAGE_GENERATION",
     "RAG_QUERY", "UNKNOWN", "SECURITY_BLOCKED", "SECURITY_FILTERED", "ERROR"}

\* handle_query has returned a payload
PayloadReturned == pc \in {"returned", "error"}

\* C31: every payload returned by handle_query holds a response that is a text and an
\* intent of the closed label set
C31_PayloadShape ==
    PayloadReturned =>
        /\ {"response", "intent"} \subseteq result.keys
        /\ result.response /= NoneText
        /\ result.intent \in IntentLabels

\* the part about the label alone: both keys are present and the intent is of the
\* closed set
C31_LabelOfClosedSet ==
    PayloadReturned =>
        /\ {"response", "intent"} \subseteq result.keys
        /\ result.intent \in IntentLabels

\* payloads of the block, the filter and the error path and of the fallback label
C31_WitnessLabels ==
    /\ PayloadReturned
    /\ result.intent \in {"SECURITY_BLOCKED", "SECURITY_FILTERED", "ERROR", "UNKNOWN"}

(***************************************************************************)
(* C32: clear_history gives back a fresh ChatAgent                         *)
(***************************************************************************)
\* the place in the log of the last clear_history call, 0 when there was none
LastClear ==
    LET clears == {k \in 1..Len(ex_calls) : ex_calls[k].asked = ClearMark}
    IN  IF clears = {} THEN 0 ELSE CHOOSE k \in clears : \A j \in clears : j <= k

\* the extract_entities calls made since the last clear
SinceClear == SubSeq(ex_calls, LastClear + 1, Len(ex_calls))

\* a ChatAgent as constructed, with the same max_history
Fresh == ChatAgentInit(chat_agent.max_history)

\* the agent `ca` after the logged extract_entities calls
RECURSIVE ReplayExtracts(_, _)
ReplayExtracts(ca, log) ==
    IF log = <<>> THEN ca
    ELSE ReplayExtracts(extract_entities(ca, Head(log).asked.text, Head(log).today).ca, Tail(log))

\* the agent `ca` after the logged add_to_history calls
RECURSIVE ReplayAdds(_, _)
ReplayAdds(ca, log) ==
    IF log = <<>> THEN ca
    ELSE ReplayAdds(add_to_history(ca, Head(log).query, Head(log).response, Head(log).timestamp),
                    Tail(log))

\* C32: after clear_history the agent behaves as a freshly constructed one with the
\* same max_history: the calls made since the clear return what they return on a
\* fresh agent and leave the state they leave on a fresh agent
C32_ClearedIsFresh ==
    LastClear > 0 =>
        /\ chat_agent = ReplayAdds(ReplayExtracts(Fresh, SinceClear), ch_inserted)
        /\ \A k \in 1..Len(SinceClear) :
              LET e == extract_entities(ReplayExtracts(Fresh, SubSeq(SinceClear, 1, k - 1)),
                                        SinceClear[k].asked.text, SinceClear[k].today)
              IN  SinceClear[k].location = e.location /\ SinceClear[k].date = e.date

\* a place and a date were remembered and the history held an entry when the context
\* was cleared; since then a query that names nothing was asked and an entry added
C32_Witness ==
    /\ LastClear > 0
    /\ ex_calls[LastClear].before.location /= DefaultLocation
    /\ ex_calls[LastClear].before.date /= <<>>
    /\ ch_count > Len(ch_inserted)
    /\ ch_inserted /= <<>>
    /\ SinceClear /= <<>>
    /\ SinceClear[1].asked.place = <<>>
    /\ SinceClear[1].location = DefaultLocation

\* until it is cleared the context persists: a query that names no place is answered
\* with the place remembered from an earlier turn
C32_WitnessPersists ==
    /\ LastClear = 0
    /\ Len(ex_calls) = 2
    /\ ex_calls[1].asked.place /= <<>>
    /\ ex_calls[2].asked.place = <<>>
    /\ location_match(ex_calls[2].asked.text) = <<>>
    /\ ex_calls[2].location = ex_calls[1].asked.place

(***************************************************************************)
(* C33: the extra scan of the image prompt                                 *)
(***************************************************************************)
\* the scans the image handler made during the current call
ImageScans == {i \in 1..Len(scans) : scans[i].agent_name = "image_agent"}

\* the image handler's scan reported a threat
ImageThreat == \E i \in ImageScans : scans[i].threat_detected

\* the query was routed to the image handler, and the handler is over
ImageRouted ==
    /\ security_enabled
    /\ completion /= NoCompletion
    /\ classify_intent(completion) = "IMAGE_GENERATION"
    /\ \/ pc \in {"dispatched", "post_scanned", "recorded", "returned"}
       \/ pc = "error" /\ exception.step \in {"dispatch", "post_scan"}

\* the image service is called only after a scan of the image prompt that found
\* nothing
ImageScannedFirst ==
    TimesCalled("image_agent.generate_image") > 0 =>
        ImageScans /= {} /\ ~ImageThreat

\* the label of an image query is IMAGE_GENERATION unless the post-scan filters it
ImageLabelKept ==
    /\ pc \in {"dispatched", "post_scanned", "recorded"} =>
           intent \in {"IMAGE_GENERATION", "SECURITY_FILTERED"}
    /\ pc = "returned" => result.intent \in {"IMAGE_GENERATION", "SECURITY_FILTERED"}
    /\ intent = "SECURITY_FILTERED" =>
           Truthy(response_scan.threat_detected) /\ security_agent.block_on_threat

\* C33: on the image path with scanning enabled the image prompt is scanned before the
\* image service is called; when that scan detects a threat the service is not called
\* and the handler returns the canned safe response, under either policy, and the
\* label stays IMAGE_GENERATION unless the post-scan filters it
C33_ImageThreatAnswered ==
    ImageRouted =>
        /\ ImageScannedFirst
        /\ ImageThreat =>
              /\ TimesCalled("image_agent.generate_image") = 0
              /\ ~(pc = "error" /\ exception.step = "dispatch")
              /\ pc = "dispatched" => response[1] = base_message
              /\ ImageLabelKept

\* the same, apart from the calls in which producing the safe response raised
C33_ImageThreatAnsweredUnlessRaised ==
    ImageRouted /\ ~(pc = "error" /\ exception.step = "dispatch") =>
        /\ ImageScannedFirst
        /\ ImageThreat =>
              /\ TimesCalled("image_agent.generate_image") = 0
              /\ pc = "dispatched" => response[1] = base_message
              /\ ImageLabelKept

\* under a log-only policy the image scan found a threat and the query came back
\* labelled IMAGE_GENERATION with the safe response
C33_WitnessLogOnly ==
    /\ ImageRouted /\ ImageThreat
    /\ ~security_agent.block_on_threat
    /\ pc = "returned"
    /\ result.intent = "IMAGE_GENERATION"
    /\ result.response[1] = base_message

(***************************************************************************)
(* C34: block and filter follow threat_detected, not is_safe               *)
(***************************************************************************)
\* the pre-scan of the current call has been made
PreScanMade == security_enabled /\ pc \notin {"idle", "received"}

\* the post-scan of the current call has been made
PostScanMade ==
    /\ security_enabled
    /\ pc \in {"post_scanned", "recorded", "returned"}
    /\ ~(pc = "returned" /\ result.intent = "SECURITY_BLOCKED")

\* the call was blocked at the pre-scan
BlockedAtPreScan == pc = "returned" /\ result.intent = "SECURITY_BLOCKED"

\* C34: the call is blocked at the pre-scan exactly when the prompt scan detected a
\* threat and block_on_threat is set, and filtered at the post-scan exactly when the
\* response scan detected a threat and block_on_threat is set, whatever is_safe says
C34_DecisionFollowsThreat ==
    /\ PreScanMade =>
          (BlockedAtPreScan <=>
              Truthy(prompt_scan.threat_detected) /\ security_agent.block_on_threat)
    /\ PostScanMade =>
          (intent = "SECURITY_FILTERED" <=>
              Truthy(response_scan.threat_detected) /\ security_agent.block_on_threat)

\* a prompt scan that reports a threat and calls the text safe has blocked the call
C34_WitnessBlocked ==
    /\ BlockedAtPreScan
    /\ prompt_scan.is_safe
    /\ Truthy(prompt_scan.threat_detected)

\* a response scan that reports a threat and calls the text safe has filtered the
\* response
C34_WitnessFiltered ==
    /\ pc = "returned"
    /\ result.intent = "SECURITY_FILTERED"
    /\ response_scan.is_safe
    /\ Truthy(response_scan.threat_detected)

(***************************************************************************)
(* C35: activation_status and last_error agree                             *)
(***************************************************************************)
FailureStatuses == {"pending_activation", "auth_failed", "timeout", "error"}

\* C35: on an enabled scanner last_error is None while the status is pending or
\* active, and a text that is not empty while the status is pending_activation,
\* auth_failed, timeout or error
C35_StatusAgreesWithError ==
    security_agent.enabled =>
        /\ security_agent.activation_status \in {"pending", "active"} \cup FailureStatuses
        /\ security_agent.activation_status \in {"pending", "active"} =>
              security_agent.last_error = Null
        /\ security_agent.activation_status \in FailureStatuses =>
              security_agent.last_error \notin {Null, ""}

\* a scan failed on a scanner that had been active, and the failure is on record
C35_Witness ==
    /\ sc_count = 2
    /\ sc_before.activation_status = "active"
    /\ security_agent.activation_status \in FailureStatuses
    /\ security_agent.last_error /= Null

\* a scan succeeded on a scanner whose last scan had failed: the failure stays on
\* record
C35_WitnessStays ==
    /\ sc_count = 2
    /\ sc_before.activation_status \in FailureStatuses
    /\ sc_result.action_taken \in {"ALLOW", "LOGGED", "BLOCKED"}
    /\ security_agent.activation_status = sc_before.activation_status
    /\ security_agent.last_error = sc_before.last_error

(***************************************************************************)
(* C36: how the counters stand to one another                              *)
(***************************************************************************)
\* C36: blocked_requests <= threats_detected <= total_scans, prompts_scanned and
\* responses_scanned are at most total_scans, and total_scans is at most their sum
C36_CountersOrdered ==
    LET stats == security_agent.stats
    IN  /\ stats.blocked_requests <= stats.threats_detected
        /\ stats.threats_detected <= stats.total_scans
        /\ stats.prompts_scanned <= stats.total_scans
        /\ stats.responses_scanned <= stats.total_scans
        /\ stats.total_scans <= stats.prompts_scanned + stats.responses_scanned

\* two scans were counted, one of them blocked and one without a response to scan
C36_Witness ==
    LET stats == security_agent.stats
    IN  /\ stats.total_scans = 2
        /\ stats.blocked_requests = 1
        /\ stats.threats_detected >= 1
        /\ stats.responses_scanned = 1
        /\ stats.prompts_scanned >= 1

(***************************************************************************)
(* C37: every blocked or filtered query is counted                         *)
(***************************************************************************)
\* the calls made so far that returned SECURITY_BLOCKED or SECURITY_FILTERED
FlaggedReturns ==
    flagged + (IF pc = "returned" /\ result.intent \in {"SECURITY_BLOCKED", "SECURITY_FILTERED"}
               THEN 1 ELSE 0)

\* C37: blocked_requests is at least the number of queries returned with intent
\* SECURITY_BLOCKED or SECURITY_FILTERED
C37_FlaggedAreCounted == security_agent.stats.blocked_requests >= FlaggedReturns

\* three queries came back, one blocked and one filtered
C37_Witness ==
    /\ queries = 3
    /\ pc = "returned"
    /\ FlaggedReturns >= 2
    /\ result.intent = "SECURITY_FILTERED"
    /\ security_agent.stats.blocked_requests = FlaggedReturns

(***************************************************************************)
(* C38: a blocked query leaves the conversation context alone              *)
(***************************************************************************)
\* C38: a call that is blocked at the pre-scan consists of the call and the pre-scan,
\* and neither touches the ChatAgent: remembered place, remembered date and history
\* are after the SECURITY_BLOCKED return what they were before the call
C38_BlockedLeavesContext ==
    [][/\ pc' = "received" => chat_agent' = chat_agent
       /\ pc = "received" /\ BlockedAtPreScan' =>
             /\ chat_agent' = chat_agent
             /\ chat_agent'.conversation_history = history_before']_vars

\* a query that names a place and a day was blocked in a later turn: the date of the
\* earlier turns is still remembered and the history is the one the call found
C38_Witness ==
    /\ BlockedAtPreScan
    /\ queries >= 2
    /\ chat_agent.conversation_history /= <<>>
    /\ chat_agent.conversation_history = history_before
    /\ chat_agent.last_active_date /= <<>>
    /\ location_match(Chars(user_query)) /= <<>>

\* the first query of a session, which names Paris, was blocked: the remembered place
\* is still the default and no date is remembered
C38_WitnessFirst ==
    /\ BlockedAtPreScan
    /\ queries = 1
    /\ location_match(Chars(user_query)) /= <<>>
    /\ chat_agent = ChatAgentInit(chat_agent.max_history)

(***************************************************************************)
(* C39: what _handle_rag_query returns when the retrieval has no answer    *)
(***************************************************************************)
\* rag_agent.query raised, or answered with an empty text or with one of the
\* "no information" phrases
RetrievedNonAnswer ==
    /\ retrieved /= NoRetrieved
    /\ \/ retrieved.kind = "raise"
       \/ is_rag_no_answer(retrieved.answer)

\* every output of the fallback handler ends with the reminder of the services
IsFallbackOutput(text) == text /= <<>> /\ text[Len(text)] = reminder

\* C39, as the specification states it: whenever the retrieval raises or answers with
\* an empty text or a "no information" phrase, _handle_rag_query returns the
\* fallback handler's output, whatever the query, a query mentioning 2026 included
C39_NonAnswerNeverSurfaced ==
    (pc = "dispatched" /\ RetrievedNonAnswer) => IsFallbackOutput(response)

\* what the code does: the same, except for an empty answer to a query mentioning
\* 2026, which the appended note makes non-empty before the test
C39_SurfacedOnlyNoteOn2026 ==
    (pc = "dispatched" /\ RetrievedNonAnswer) =>
        \/ IsFallbackOutput(response)
        \/ /\ Contains(Chars(user_query), Words.y2026)
           /\ retrieved.kind = "text" /\ retrieved.answer = <<>>
           /\ response = <<Answers.note2026>>

\* an empty retrieval answer to a query mentioning 2026 was returned as the note alone
C39_WitnessNoteAlone ==
    /\ pc = "dispatched" /\ RetrievedNonAnswer
    /\ response = <<Answers.note2026>>

\* a "no information" answer to a query mentioning 2026 was replaced by the fallback
C39_WitnessFallback2026 ==
    /\ pc = "dispatched" /\ RetrievedNoInformation
    /\ Contains(Chars(user_query), Words.y2026)
    /\ IsFallbackOutput(response)

====
